---- MODULE Spec2Model ----
(***************************************************************************)
(* Multi-tenant e-commerce backend (FastAPI + SQLAlchemy).                 *)
(*                                                                         *)
(* The committed database is the state; every request handler is an       *)
(* action.  Names are sequences of one-character strings so that lower()   *)
(* and strip() are computed, ids are the integer primary keys, NULL is 0,  *)
(* prices are counted in whole currency units.                             *)
(*                                                                         *)
(* Specifications:                                                         *)
(*   SpecOrderConc   order / product-update requests of several clients    *)
(*                   interleaved statement by statement (one SQLAlchemy    *)
(*                   session per request, no row lock)                     *)
(*   SpecOrderRace   the same with order requests only, remembering the    *)
(*                   stock the run starts from                             *)
(*   SpecOrder       product updates, then one order request, each served  *)
(*                   in one step; `last` records the request and answer    *)
(*   Spec            product creation, update and deletion by every kind   *)
(*                   of caller, each request served in one step            *)
(*   SpecAdmin       tenant and tenant-user management by every kind of    *)
(*                   caller, each request served in one step               *)
(*   SpecTenantRace  tenant creations of several clients interleaved       *)
(*                   statement by statement                                *)
(*   SpecRename      product creation and renaming in a tenant that sells  *)
(*                   two products                                          *)
(*   SpecIdentity    identity resolution over the claims a verified token  *)
(*                   can carry, with role assignment by the platform admin *)
(*   SpecFav         favourites and orders by callers of every role over   *)
(*                   the products of two tenants                           *)
(*   SpecSignup      public signup and tenant-user creation with every     *)
(*                   outcome of the identity provider                      *)
(*   SpecList        listings of orders and favourites, with orders and    *)
(*                   favourites being added, over a shop in use            *)
(*   SpecExternal    requests waiting for the key endpoint and for the     *)
(*                   provider's admin API, which may never answer          *)
(*   SpecAll         every handler, one request at a time, over a shop in  *)
(*                   use                                                   *)
(***************************************************************************)
EXTENDS Integers, Sequences, FiniteSets, TLC

(* ------------------------------------------------------------------ *)
(* Bounds of the model                                                 *)
(* ------------------------------------------------------------------ *)
NumReq == 2
MaxStock == 2
MaxLines == 2
MaxQty == 2
ShopStock2 == 1
MaxRequests == 2

(* ------------------------------------------------------------------ *)
(* Values                                                              *)
(* ------------------------------------------------------------------ *)
NULL == 0

Slots == 1..NumReq

Max(S) == CHOOSE x \in S : \A y \in S : y <= x

\* A fresh INTEGER PRIMARY KEY: one more than the largest id of the table.
NewId(rows) == IF rows = {} THEN 1 ELSE Max({r.id : r \in rows}) + 1

RECURSIVE SumSeq(_)
SumSeq(s) == IF s = <<>> THEN 0 ELSE Head(s) + SumSeq(Tail(s))

\* Sequences over S of length 0..n
SeqsUpTo(S, n) == UNION {[1..k -> S] : k \in 0..n}

(* ------------------------------------------------------------------ *)
(* Responses                                                           *)
(* ------------------------------------------------------------------ *)
Resp(status, kind) ==
    [status |-> status, kind |-> kind, pname |-> <<>>, avail |-> 0, asked |-> 0]

NoResp == Resp(0, "none")
Ok == Resp(200, "ok")

\* UnauthorizedError
Unauthenticated == Resp(401, "Unauthenticated")
\* InvalidTokenError
InvalidToken == Resp(401, "InvalidToken")
\* PermissionDeniedError
PermissionDenied == Resp(403, "PermissionDenied")
\* ResourceNotFoundError, and get_tenant_by_path's HTTPException(404)
NotFound == Resp(404, "NotFound")
\* ResourceAlreadyExistsError
AlreadyExists == Resp(400, "AlreadyExists")
\* InvalidOperationError
InvalidOperation == Resp(400, "InvalidOperation")
\* the order route's HTTPException(400) for create_order's ValueError("Invalid quantity")
InvalidQuantity == Resp(400, "ValidationError")
\* the order route's HTTPException(400) for create_order's ValueError("Insufficient stock ...")
InsufficientStock(prod, quantity) ==
    [status |-> 400, kind |-> "InsufficientQuantity", pname |-> prod.name,
     avail |-> prod.qty, asked |-> quantity]
\* FastAPI's answer to a body the pydantic schema rejects
Unprocessable == Resp(422, "RequestValidation")
\* create_tenant_user's HTTPException(400, "Password is required for user creation")
PasswordRequired == Resp(400, "PasswordRequired")
\* general_exception_handler
ServerError == Resp(500, "InternalError")

(* ------------------------------------------------------------------ *)
(* Names: lower(), strip()                                             *)
(* ------------------------------------------------------------------ *)
LowerChar(c) ==
    CASE c = "N" -> "n"
      [] c = "A" -> "a"
      [] c = "X" -> "x"
      [] c = "Y" -> "y"
      [] c = "Z" -> "z"
      [] OTHER -> c

\* str.lower()
Lower(s) == [i \in DOMAIN s |-> LowerChar(s[i])]

RECURSIVE LStrip(_)
LStrip(s) == IF s # <<>> /\ Head(s) = " " THEN LStrip(Tail(s)) ELSE s

RECURSIVE RStrip(_)
RStrip(s) ==
    IF s # <<>> /\ s[Len(s)] = " " THEN RStrip(SubSeq(s, 1, Len(s) - 1)) ELSE s

\* str.strip()
Strip(s) == RStrip(LStrip(s))

(* ------------------------------------------------------------------ *)
(* State                                                               *)
(* ------------------------------------------------------------------ *)
VARIABLES
    tenants,    \* table tenants:     {[id, name]}
    users,      \* table users:       {[id, username, role, tenant_id]}
    products,   \* table products:    {[id, name, price, qty, tenant_id]}
    orders,     \* table orders:      {[id, user_id, total_quantity, total_amount]}
    items,      \* table order_items: {[id, order_id, product_id, quantity, unit_price]}
    favs,       \* table user_favourites: {<<user_id, product_id>>}
    reqs,       \* requests in flight: slot -> the request's session and position
    stock0,     \* history: product id -> available_quantity in the initial state
                \* (kept by the specifications that compare against it)
    last        \* the request served last by an atomic handler, and its answer

vars == <<tenants, users, products, orders, items, favs, reqs, stock0, last>>

db == <<tenants, users, products, orders, items, favs>>

(* ------------------------------------------------------------------ *)
(* Queries of crud.py                                                  *)
(* ------------------------------------------------------------------ *)
NoRow == [id |-> NULL]

\* Query.first() of a filter that matches `rows`: the row of least id, or None
First(rows) ==
    IF rows = {} THEN NoRow
    ELSE CHOOSE r \in rows : \A q \in rows : r.id <= q.id

get_tenant_by_name(ts, name) ==
    First({t \in ts : Lower(t.name) = Lower(name)})

get_tenant_by_id(ts, tenant_id) == First({t \in ts : t.id = tenant_id})

get_user_by_username(us, username) == First({u \in us : u.username = username})

get_user_by_id(us, user_id) == First({u \in us : u.id = user_id})

get_product(ps, product_id) == First({p \in ps : p.id = product_id})

(* ------------------------------------------------------------------ *)
(* Authentication (auth.py, dependencies.py)                           *)
(* ------------------------------------------------------------------ *)
\* An Authorization header: absent, or "<scheme> <token>"
NoHeader == [present |-> FALSE, scheme |-> "", token |-> ""]
Header(scheme, token) == [present |-> TRUE, scheme |-> scheme, token |-> token]

\* str.lower() of the scheme word
LowerScheme(w) ==
    CASE w = "Bearer" -> "bearer"
      [] w = "BEARER" -> "bearer"
      [] w = "Basic" -> "basic"
      [] OTHER -> w

\* parse_authorization_header: the token, or "" for None
parse_authorization_header(h) ==
    IF ~h.present THEN ""
    ELSE IF LowerScheme(h.scheme) = "bearer" THEN h.token
    ELSE ""

NoClaims ==
    [valid |-> FALSE, username |-> "", realm |-> FALSE, roles |-> {},
     has_role |-> FALSE, role |-> "", tenant |-> <<>>]

Claims(username, roles, tenant) ==
    [valid |-> TRUE, username |-> username, realm |-> TRUE, roles |-> roles,
     has_role |-> FALSE, role |-> "", tenant |-> tenant]

\* The external verifier: the claims of the tokens it accepts, None for the rest
verify_jwt_token(token) ==
    CASE token = "platform-admin-token" -> Claims("root", {"platform_admin"}, <<>>)
      [] token = "nike-admin-token" -> Claims("ann", {"tenant_admin"}, <<"N">>)
      [] token = "adidas-admin-token" -> Claims("ann", {"tenant_admin"}, <<"A">>)
      [] token = "admin-no-tenant-token" -> Claims("ann", {"tenant_admin"}, <<>>)
      [] token = "user-token" -> Claims("bob", {"user"}, <<>>)
      [] token = "nameless-token" -> Claims("", {"platform_admin"}, <<>>)
      [] OTHER -> NoClaims

\* Mutant: tenant_admin in the roles list wins over platform_admin
TokenRole_TenantFirst(claims) ==
    LET derived ==
            IF claims.realm /\ "tenant_admin" \in claims.roles THEN "tenant_admin"
            ELSE IF claims.realm /\ "platform_admin" \in claims.roles THEN "platform_admin"
            ELSE "user"
    IN IF claims.has_role THEN claims.role ELSE derived

\* get_current_user, the role of the verified claims
TokenRole(claims) ==
    LET derived ==
            IF claims.realm /\ "platform_admin" \in claims.roles THEN "platform_admin"
            ELSE IF claims.realm /\ "tenant_admin" \in claims.roles THEN "tenant_admin"
            ELSE "user"
    IN IF claims.has_role THEN claims.role ELSE derived

\* crud.create_user's row
NewUser(us, username, role, tenant) ==
    [id |-> NewId(us), username |-> username, role |-> role, tenant_id |-> tenant.id]

\* Mutant: a row is created without looking for the user
SyncUser_AlwaysCreates(us, username, role, tenant) ==
    LET created == NewUser(us, username, role, tenant)
    IN [users |-> us \cup {created}, user |-> created]

\* Mutant: the stored tenant follows the token even when the token names none
SyncUser_ClearsTenant(us, username, role, tenant) ==
    LET user == get_user_by_username(us, username) IN
    IF user.id = NULL
    THEN LET created == NewUser(us, username, role, tenant)
         IN [users |-> us \cup {created}, user |-> created]
    ELSE LET row == [user EXCEPT !.role = role, !.tenant_id = tenant.id]
         IN [users |-> (us \ {user}) \cup {row}, user |-> row]

\* get_current_user, the get-or-create of the local user; commits when it writes
SyncUser(us, username, role, tenant) ==
    LET user == get_user_by_username(us, username) IN
    IF user.id = NULL
    THEN LET created == NewUser(us, username, role, tenant)
         IN [users |-> us \cup {created}, user |-> created]
    ELSE LET r1 == IF user.role # role THEN [user EXCEPT !.role = role] ELSE user
             r2 == IF tenant.id # NULL /\ (r1.tenant_id = NULL \/ r1.tenant_id # tenant.id)
                   THEN [r1 EXCEPT !.tenant_id = tenant.id]
                   ELSE r1
         IN [users |-> (us \ {user}) \cup {r2}, user |-> r2]

\* Mutant: claims without a username resolve to the user of the empty name
ResolveClaims_Nameless(claims, ts, us) ==
    LET tenant == IF claims.tenant # <<>> THEN get_tenant_by_name(ts, claims.tenant)
                  ELSE NoRow
    IN IF ~claims.valid THEN [resp |-> InvalidToken, users |-> us, user |-> NoRow]
       ELSE [resp |-> NoResp] @@ SyncUser(us, claims.username, TokenRole(claims), tenant)

\* get_current_user from the verified claims on: [resp, users, user]; resp =
\* NoResp when a principal is resolved
ResolveClaims(claims, ts, us) ==
    LET tenant == IF claims.tenant # <<>> THEN get_tenant_by_name(ts, claims.tenant)
                  ELSE NoRow
    IN IF ~claims.valid THEN [resp |-> InvalidToken, users |-> us, user |-> NoRow]
       ELSE IF claims.username = "" THEN [resp |-> InvalidToken, users |-> us, user |-> NoRow]
       ELSE [resp |-> NoResp] @@ SyncUser(us, claims.username, TokenRole(claims), tenant)

\* get_current_user: [resp, users, user]
get_current_user(h, ts, us) ==
    LET token == parse_authorization_header(h) IN
    IF token = "" THEN [resp |-> Unauthenticated, users |-> us, user |-> NoRow]
    ELSE ResolveClaims(verify_jwt_token(token), ts, us)

\* Mutant: any authenticated caller passes for a platform admin
require_platform_admin_Anyone(user) == TRUE

\* require_platform_admin: TRUE when allowed
require_platform_admin(user) == user.role = "platform_admin"

\* Mutant: a tenant admin passes for the admin of every tenant
require_tenant_admin_AnyTenant(tenant, user) ==
    IF user.role \in {"platform_admin", "tenant_admin"} THEN NoResp ELSE PermissionDenied

\* require_tenant_admin: NoResp when allowed
require_tenant_admin(tenant, user) ==
    IF user.role = "platform_admin" THEN NoResp
    ELSE IF user.role # "tenant_admin" THEN PermissionDenied
    ELSE IF user.tenant_id = NULL \/ user.tenant_id # tenant.id THEN PermissionDenied
    ELSE NoResp

(* ------------------------------------------------------------------ *)
(* create_order (crud.py), one SQLAlchemy session per request          *)
(* ------------------------------------------------------------------ *)
\* OrderItemCreate: product_id > 0, quantity > 0
ValidOrderItem(it) == it.product_id > 0 /\ it.quantity > 0

\* OrderCreate: a list of OrderItemCreate
ValidOrderCreate(input) == \A k \in DOMAIN input : ValidOrderItem(input[k])

\* The session of a request: the products it has loaded (its identity map, with
\* the values it has set), the OrderItems added, the running totals, the error raised
NewSession ==
    [cache |-> {}, lines |-> <<>>, total_q |-> 0, total_amount |-> 0, err |-> NoResp]

\* Mutant: every line reads the row as committed, whatever the lines before
\* it took
SessionProduct_Committed(st, ps, product_id) == get_product(ps, product_id)

\* get_product inside a session: None when the table has no such row, else the
\* object the session already holds for that id, else the row as committed
SessionProduct(st, ps, product_id) ==
    LET row == get_product(ps, product_id)
        held == {c \in st.cache : c.id = product_id}
    IN IF row.id = NULL THEN NoRow
       ELSE IF held # {} THEN CHOOSE c \in held : TRUE
       ELSE row

\* Mutant: the stock check is left out
StockShort_Never(prod, quantity) == FALSE

StockShort(prod, quantity) == prod.qty < quantity

\* Mutant: the line's amount forgets the quantity
LineAmount_Unit(unit_price, quantity) == unit_price

LineAmount(unit_price, quantity) == unit_price * quantity

\* create_order, the body of the loop for one item
OrderItemStep(st, ps, it) ==
    LET quantity == it.quantity
        prod == SessionProduct(st, ps, it.product_id)
    IN IF quantity <= 0 THEN [st EXCEPT !.err = InvalidQuantity]
       ELSE IF prod.id = NULL THEN [st EXCEPT !.err = NotFound]
       ELSE IF StockShort(prod, quantity)
            THEN [st EXCEPT !.err = InsufficientStock(prod, quantity)]
       ELSE [cache |-> {c \in st.cache : c.id # prod.id}
                         \cup {[prod EXCEPT !.qty = @ - quantity]},
             lines |-> Append(st.lines, [product_id |-> prod.id, quantity |-> quantity,
                                         unit_price |-> prod.price]),
             total_q |-> st.total_q + quantity,
             total_amount |-> st.total_amount + LineAmount(prod.price, quantity),
             err |-> NoResp]

\* The rows db.commit() inserts for the order and its items
OrderRow(os, user_id, st) ==
    [id |-> NewId(os), user_id |-> user_id,
     total_quantity |-> st.total_q, total_amount |-> st.total_amount]

ItemRows(its, order_id, lines) ==
    LET base == IF its = {} THEN 0 ELSE Max({r.id : r \in its})
    IN {[id |-> base + k, order_id |-> order_id, product_id |-> lines[k].product_id,
         quantity |-> lines[k].quantity, unit_price |-> lines[k].unit_price]
        : k \in DOMAIN lines}

\* db.commit(): UPDATE products SET available_quantity = <the session's value>
\* WHERE id = <id>, for every product the session changed
FlushStock(ps, cache) ==
    {IF \E c \in cache : c.id = p.id
     THEN [p EXCEPT !.qty = (CHOOSE c \in cache : c.id = p.id).qty]
     ELSE p : p \in ps}

\* An UPDATE that matches no row makes the flush fail (StaleDataError)
FlushStale(ps, cache) == \E c \in cache : \A p \in ps : p.id # c.id

\* Mutant: the session's pending work is written when it is closed
SessionClose_Commits(committed, pending) == pending

\* get_db: closing a session that did not commit rolls its work back
SessionClose(committed, pending) == committed

(* ------------------------------------------------------------------ *)
(* Tenant-scoped product routes (routers/products.py, crud.py)         *)
(* ------------------------------------------------------------------ *)
\* ProductCreate: name of 1..200 characters and not blank, price > 0,
\* available_quantity >= 0
ValidProductCreate(data) ==
    /\ Len(data.name) >= 1
    /\ Strip(data.name) # <<>>
    /\ data.price > 0
    /\ data.qty >= 0

\* ProductCreate.name_not_empty returns the stripped name
ParsedProductCreate(data) == [data EXCEPT !.name = Strip(@)]

\* The dependencies of POST/PUT/DELETE /{tenant_name}/products/..., in the order
\* FastAPI solves them: require_tenant_admin's own dependencies get_tenant_by_path
\* and get_current_user, then require_tenant_admin
ProductGate(h, tenant_name, ts, us) ==
    LET tenant == get_tenant_by_name(ts, tenant_name)
        g == get_current_user(h, ts, us)
    IN IF tenant.id = NULL
       THEN [resp |-> NotFound, users |-> us, user |-> NoRow, tenant |-> tenant]
       ELSE IF g.resp # NoResp
       THEN [resp |-> g.resp, users |-> us, user |-> NoRow, tenant |-> tenant]
       ELSE [resp |-> require_tenant_admin(tenant, g.user), users |-> g.users,
             user |-> g.user, tenant |-> tenant]

\* crud.update_product / crud.delete_product, the check on the caller
MayChangeProduct(user, product) ==
    \/ user.role = "platform_admin"
    \/ user.role = "tenant_admin" /\ user.tenant_id = product.tenant_id

\* UniqueConstraint('tenant_id', 'name'): would `row` collide with another row
ProductNameTaken(ps, row) ==
    \E q \in ps : q.id # row.id /\ q.tenant_id = row.tenant_id /\ q.name = row.name

\* Mutant: the body's quantity is added to the stock
UpdateWrite_AddsStock(ps, loaded, data) ==
    LET cur == get_product(ps, loaded.id)
        row == [cur EXCEPT !.name = data.name, !.price = data.price,
                           !.qty = @ + data.qty + 1]
    IN IF cur.id = NULL \/ ProductNameTaken(ps, row)
       THEN [resp |-> ServerError, products |-> ps]
       ELSE [resp |-> Ok, products |-> (ps \ {cur}) \cup {row}]

\* crud.update_product's commit: UPDATE products SET <the columns whose value
\* differs from the one loaded> WHERE id = <id>
UpdateWrite(ps, loaded, data) ==
    LET cur == get_product(ps, loaded.id)
        row == [cur EXCEPT
                  !.name = IF data.name # loaded.name THEN data.name ELSE @,
                  !.price = IF data.price # loaded.price THEN data.price ELSE @,
                  !.qty = IF data.qty # loaded.qty THEN data.qty ELSE @]
        changed == data.name # loaded.name \/ data.price # loaded.price
                   \/ data.qty # loaded.qty
    IN IF ~changed THEN [resp |-> Ok, products |-> ps]
       ELSE IF cur.id = NULL THEN [resp |-> ServerError, products |-> ps]
       ELSE IF ProductNameTaken(ps, row) THEN [resp |-> ServerError, products |-> ps]
       ELSE [resp |-> Ok, products |-> (ps \ {cur}) \cup {row}]

\* PUT /{tenant_name}/products/{product_id} up to the commit:
\* [resp, users, loaded]; resp = NoResp when the update is ready to commit
UpdateLookup(h, tenant_name, product_id, data, ts, us, ps) ==
    LET g == ProductGate(h, tenant_name, ts, us)
        p == get_product(ps, product_id)
    IN IF g.resp # NoResp THEN [resp |-> g.resp, users |-> g.users, loaded |-> NoRow]
       ELSE IF ~ValidProductCreate(data)
       THEN [resp |-> Unprocessable, users |-> g.users, loaded |-> NoRow]
       ELSE IF p.id = NULL \/ p.tenant_id # g.tenant.id
       THEN [resp |-> NotFound, users |-> g.users, loaded |-> NoRow]
       ELSE IF ~MayChangeProduct(g.user, p)
       THEN [resp |-> PermissionDenied, users |-> g.users, loaded |-> NoRow]
       ELSE [resp |-> NoResp, users |-> g.users, loaded |-> p]

\* Mutant: the duplicate check compares the names as written
SameProductName_Exact(a, b) == a = b

\* crud.create_product, the duplicate check's comparison:
\* func.lower(Product.name) == name.lower()
SameProductName(a, b) == Lower(a) = Lower(b)

\* crud.create_product: [resp, products]
create_product(ps, tenant, data) ==
    LET existing == First({p \in ps : p.tenant_id = tenant.id
                                      /\ SameProductName(p.name, data.name)})
        product == [id |-> NewId(ps), name |-> data.name, price |-> data.price,
                    qty |-> data.qty, tenant_id |-> tenant.id]
    IN IF existing.id # NULL THEN [resp |-> AlreadyExists, products |-> ps]
       ELSE [resp |-> Ok, products |-> ps \cup {product}]

\* Mutant: the product's rows of user_favourites stay
DeleteProductRows_KeepsFavs(ps, its, fv, product) ==
    [products |-> ps \ {product},
     items |-> {it \in its : it.product_id # product.id},
     favs |-> fv]

\* db.delete(product) and the commit: the product's order items go with it
\* (cascade 'all, delete-orphan'), and its rows of user_favourites
DeleteProductRows(ps, its, fv, product) ==
    [products |-> ps \ {product},
     items |-> {it \in its : it.product_id # product.id},
     favs |-> {f \in fv : f[2] # product.id}]

(* ------------------------------------------------------------------ *)
(* The catalogue the order requests run against                        *)
(* ------------------------------------------------------------------ *)
ShopTenants == {[id |-> 1, name |-> <<"N">>], [id |-> 2, name |-> <<"A">>]}

ShopUsers ==
    {[id |-> 1, username |-> "root", role |-> "platform_admin", tenant_id |-> NULL],
     [id |-> 2, username |-> "bob", role |-> "user", tenant_id |-> NULL]}

ShopProducts(q1, q2) ==
    {[id |-> 1, name |-> <<"X">>, price |-> 3, qty |-> q1, tenant_id |-> 1],
     [id |-> 2, name |-> <<"Y">>, price |-> 1, qty |-> q2, tenant_id |-> 2]}

OrderHeaders ==
    {NoHeader, Header("Basic", "user-token"), Header("Bearer", "expired-token"),
     Header("Bearer", "user-token")}

OrderItemInputs == [product_id : 0..3, quantity : 0..MaxQty]

OrderInputs == SeqsUpTo(OrderItemInputs, MaxLines)

UpdateHeaders == {Header("Bearer", "platform-admin-token")}

PriceInputs == {1, 3}

\* PUT bodies that resubmit the product's name with a price and a quantity
StockUpdateInputs(p) == [name : {p.name}, price : PriceInputs, qty : 0..MaxStock]

(* ------------------------------------------------------------------ *)
(* Order and product-update requests, statement by statement           *)
(* ------------------------------------------------------------------ *)
NoData == [name |-> <<>>, price |-> 0, qty |-> 0]

IdleReq ==
    [pc |-> "idle", op |-> "none", uid |-> NULL, input |-> <<>>, i |-> 0,
     st |-> NewSession, loaded |-> NoRow, data |-> NoData, resp |-> NoResp]

\* A request that has been answered: its session is closed; the record keeps
\* the answer and the item of the list the loop had come to
Answered(op, i, resp) ==
    [IdleReq EXCEPT !.pc = "done", !.op = op, !.i = i, !.resp = resp]

Idle(r) == reqs[r].pc = "idle"

\* POST /orders/ up to the loop of create_order: get_current_user, the body's
\* schema, the empty-list check, Order(...) added to the session
BeginOrder(r, h, input) ==
    LET g == get_current_user(h, tenants, users) IN
    /\ Idle(r)
    /\ users' = g.users
    /\ reqs' = [reqs EXCEPT ![r] =
            IF g.resp # NoResp THEN Answered("order", 0, g.resp)
            ELSE IF ~ValidOrderCreate(input) THEN Answered("order", 0, Unprocessable)
            ELSE IF input = <<>> THEN Answered("order", 0, InvalidOperation)
            ELSE [IdleReq EXCEPT !.pc = "items", !.op = "order", !.uid = g.user.id,
                                 !.input = input, !.i = 1]]
    /\ UNCHANGED <<tenants, products, orders, items, favs, stock0, last>>

\* One pass of create_order's loop.  An item that fails raises: the route
\* answers and get_db closes the session
OrderItem(r) ==
    LET q == reqs[r]
        st == OrderItemStep(q.st, products, q.input[q.i])
        order == OrderRow(orders, q.uid, st)
    IN
    /\ q.pc = "items"
    /\ IF st.err # NoResp
       THEN /\ reqs' = [reqs EXCEPT ![r] = Answered("order", q.i, st.err)]
            /\ products' = SessionClose(products, FlushStock(products, st.cache))
            /\ orders' = SessionClose(orders, orders \cup {order})
            /\ items' = SessionClose(items, items \cup ItemRows(items, order.id, st.lines))
       ELSE /\ reqs' = [reqs EXCEPT ![r] =
                    [q EXCEPT !.st = st,
                              !.i = IF q.i = Len(q.input) THEN q.i ELSE q.i + 1,
                              !.pc = IF q.i = Len(q.input) THEN "commit" ELSE "items"]]
            /\ UNCHANGED <<products, orders, items>>
    /\ UNCHANGED <<tenants, users, favs, stock0, last>>

\* create_order's db.commit()
OrderCommit(r) ==
    LET q == reqs[r]
        order == OrderRow(orders, q.uid, q.st)
    IN
    /\ q.pc = "commit"
    /\ IF FlushStale(products, q.st.cache)
       THEN /\ reqs' = [reqs EXCEPT ![r] = Answered("order", q.i, ServerError)]
            /\ UNCHANGED <<products, orders, items>>
       ELSE /\ reqs' = [reqs EXCEPT ![r] = Answered("order", q.i, Ok)]
            /\ products' = FlushStock(products, q.st.cache)
            /\ orders' = orders \cup {order}
            /\ items' = items \cup ItemRows(items, order.id, q.st.lines)
    /\ UNCHANGED <<tenants, users, favs, stock0, last>>

\* PUT /{tenant_name}/products/{product_id} up to crud.update_product's commit
BeginUpdate(r, h, tenant_name, product_id, data) ==
    LET u == UpdateLookup(h, tenant_name, product_id, data, tenants, users, products) IN
    /\ Idle(r)
    /\ users' = u.users
    /\ reqs' = [reqs EXCEPT ![r] =
            IF u.resp # NoResp THEN Answered("update", 0, u.resp)
            ELSE [IdleReq EXCEPT !.pc = "write", !.op = "update", !.loaded = u.loaded,
                                 !.data = ParsedProductCreate(data)]]
    /\ UNCHANGED <<tenants, products, orders, items, favs, stock0, last>>

\* crud.update_product's db.commit()
UpdateCommit(r) ==
    LET q == reqs[r]
        w == UpdateWrite(products, q.loaded, q.data)
    IN
    /\ q.pc = "write"
    /\ reqs' = [reqs EXCEPT ![r] = Answered("update", 0, w.resp)]
    /\ products' = w.products
    /\ UNCHANGED <<tenants, users, orders, items, favs, stock0, last>>

\* Nothing served yet; n counts the requests the atomic handlers have served
NoLast == [n |-> 0, op |-> "none", resp |-> NoResp]

\* The atomic handlers serve at most MaxRequests requests in a run
MoreRequests == last.n < MaxRequests

\* The catalogue with every stock level of product 1
InitShop ==
    /\ tenants = ShopTenants
    /\ users = ShopUsers
    /\ \E q1 \in 0..MaxStock : products = ShopProducts(q1, ShopStock2)
    /\ orders = {}
    /\ items = {}
    /\ favs = {}
    /\ reqs = [r \in Slots |-> IdleReq]
    /\ last = NoLast

InitOrder == InitShop /\ stock0 = <<>>

\* The same, remembering the stock the run starts from
InitOrderRace ==
    InitShop /\ stock0 = [id \in {p.id : p \in products} |-> get_product(products, id).qty]

\* NumReq clients, one request each, interleaved
NextOrderConc ==
    \E r \in Slots :
        \/ \E h \in OrderHeaders, input \in OrderInputs : BeginOrder(r, h, input)
        \/ OrderItem(r)
        \/ OrderCommit(r)
        \/ \E h \in UpdateHeaders, p \in products : \E data \in StockUpdateInputs(p) :
              BeginUpdate(r, h, get_tenant_by_id(tenants, p.tenant_id).name, p.id, data)
        \/ UpdateCommit(r)

SpecOrderConc == InitOrder /\ [][NextOrderConc]_vars

\* NumReq clients, one createOrder each, interleaved; no product is updated
NextOrderRace ==
    \E r \in Slots :
        \/ \E h \in OrderHeaders, input \in OrderInputs : BeginOrder(r, h, input)
        \/ OrderItem(r)
        \/ OrderCommit(r)

SpecOrderRace == InitOrderRace /\ [][NextOrderRace]_vars

(* ------------------------------------------------------------------ *)
(* The same handlers, one request at a time                            *)
(* ------------------------------------------------------------------ *)
\* Mutant: the loop goes on after an item has failed and reports the last failure
RECURSIVE RunItems_KeepGoing(_, _, _, _)
RunItems_KeepGoing(st, ps, input, i) ==
    IF i > Len(input) THEN st
    ELSE LET nx == OrderItemStep([st EXCEPT !.err = NoResp], ps, input[i])
         IN RunItems_KeepGoing(IF nx.err # NoResp THEN nx
                               ELSE IF st.err # NoResp THEN [nx EXCEPT !.err = st.err]
                               ELSE nx, ps, input, i + 1)

\* create_order's loop run to its end or to the first item that raises
RECURSIVE RunItems(_, _, _, _)
RunItems(st, ps, input, i) ==
    IF i > Len(input) \/ st.err # NoResp THEN st
    ELSE RunItems(OrderItemStep(st, ps, input[i]), ps, input, i + 1)

\* POST /orders/
CreateOrder(h, input) ==
    LET g == get_current_user(h, tenants, users)
        st == RunItems(NewSession, products, input, 1)
        order == OrderRow(orders, g.user.id, st)
        resp == IF g.resp # NoResp THEN g.resp
                ELSE IF ~ValidOrderCreate(input) THEN Unprocessable
                ELSE IF input = <<>> THEN InvalidOperation
                ELSE IF st.err # NoResp THEN st.err
                ELSE IF FlushStale(products, st.cache) THEN ServerError
                ELSE Ok
        ran == g.resp = NoResp /\ ValidOrderCreate(input) /\ input # <<>>
    IN
    /\ MoreRequests
    /\ users' = g.users
    /\ last' = [n |-> last.n + 1, op |-> "order", h |-> h, input |-> input, resp |-> resp]
    /\ IF resp = Ok
       THEN /\ products' = FlushStock(products, st.cache)
            /\ orders' = orders \cup {order}
            /\ items' = items \cup ItemRows(items, order.id, st.lines)
       ELSE IF ran
       THEN /\ products' = SessionClose(products, FlushStock(products, st.cache))
            /\ orders' = SessionClose(orders, orders \cup {order})
            /\ items' = SessionClose(items, items \cup ItemRows(items, order.id, st.lines))
       ELSE UNCHANGED <<products, orders, items>>
    /\ UNCHANGED <<tenants, favs, reqs, stock0>>

\* PUT /{tenant_name}/products/{product_id}
UpdateProduct(h, tenant_name, product_id, data) ==
    LET u == UpdateLookup(h, tenant_name, product_id, data, tenants, users, products)
        w == UpdateWrite(products, u.loaded, ParsedProductCreate(data))
        resp == IF u.resp # NoResp THEN u.resp ELSE w.resp
    IN
    /\ MoreRequests
    /\ users' = u.users
    /\ last' = [n |-> last.n + 1, op |-> "update", h |-> h, tenant_name |-> tenant_name,
                product_id |-> product_id, data |-> data, resp |-> resp]
    /\ products' = IF u.resp # NoResp THEN products ELSE w.products
    /\ UNCHANGED <<tenants, orders, items, favs, reqs, stock0>>

\* Product updates, then one order request
NextOrder ==
    \/ \E h \in OrderHeaders, input \in OrderInputs :
          last.op # "order" /\ CreateOrder(h, input)
    \/ \E h \in UpdateHeaders, p \in products : \E data \in StockUpdateInputs(p) :
          last.op # "order" /\
          UpdateProduct(h, get_tenant_by_id(tenants, p.tenant_id).name, p.id, data)

SpecOrder == InitOrder /\ [][NextOrder]_vars

(* ------------------------------------------------------------------ *)
(* Product management, one request at a time                           *)
(* ------------------------------------------------------------------ *)
\* Authorization headers: none, a scheme that is not Bearer, a token the verifier
\* rejects, and the tokens of the platform admin, of ann as tenant admin of N, of
\* A and of no tenant, and of the plain user bob
Headers ==
    {NoHeader, Header("Basic", "platform-admin-token"), Header("Bearer", "expired-token"),
     Header("Bearer", "platform-admin-token"), Header("Bearer", "nike-admin-token"),
     Header("Bearer", "adidas-admin-token"), Header("Bearer", "admin-no-tenant-token"),
     Header("Bearer", "user-token")}

\* {tenant_name} of the path: N in another case, A, and a name no tenant has
PathTenantNames == {<<"n">>, <<"A">>, <<"Z">>}

\* ProductCreate bodies: a name, a name to strip that differs from it in case
\* only, a blank name; a price the schema rejects and one it accepts
ProductInputs == [name : {<<"X">>, <<"x", " ">>, <<" ">>}, price : {0, 2}, qty : {1}]

ProductIds == 1..MaxRequests

\* One product X of tenant N is on sale; no user has signed in yet
SeedProducts ==
    {[id |-> 1, name |-> <<"X">>, price |-> 2, qty |-> 1, tenant_id |-> 1]}

\* POST /{tenant_name}/products/
CreateProduct(h, tenant_name, data) ==
    LET g == ProductGate(h, tenant_name, tenants, users)
        c == create_product(products, g.tenant, ParsedProductCreate(data))
        resp == IF g.resp # NoResp THEN g.resp
                ELSE IF ~ValidProductCreate(data) THEN Unprocessable
                ELSE c.resp
    IN
    /\ MoreRequests
    /\ users' = g.users
    /\ products' = IF resp = Ok THEN c.products ELSE products
    /\ last' = [n |-> last.n + 1, op |-> "create", h |-> h, tenant_name |-> tenant_name,
                product_id |-> NULL, data |-> data, resp |-> resp]
    /\ UNCHANGED <<tenants, orders, items, favs, reqs, stock0>>

\* DELETE /{tenant_name}/products/{product_id}
DeleteProduct(h, tenant_name, product_id) ==
    LET g == ProductGate(h, tenant_name, tenants, users)
        p == get_product(products, product_id)
        resp == IF g.resp # NoResp THEN g.resp
                ELSE IF p.id = NULL \/ p.tenant_id # g.tenant.id THEN NotFound
                ELSE IF ~MayChangeProduct(g.user, p) THEN PermissionDenied
                ELSE Ok
        d == DeleteProductRows(products, items, favs, p)
    IN
    /\ MoreRequests
    /\ users' = g.users
    /\ IF resp = Ok
       THEN products' = d.products /\ items' = d.items /\ favs' = d.favs
       ELSE UNCHANGED <<products, items, favs>>
    /\ last' = [n |-> last.n + 1, op |-> "delete", h |-> h, tenant_name |-> tenant_name,
                product_id |-> product_id, data |-> NoData, resp |-> resp]
    /\ UNCHANGED <<tenants, orders, reqs, stock0>>

Init ==
    /\ tenants = ShopTenants
    /\ users = {}
    /\ products = SeedProducts
    /\ orders = {}
    /\ items = {}
    /\ favs = {}
    /\ reqs = [r \in Slots |-> IdleReq]
    /\ stock0 = <<>>
    /\ last = NoLast

Next ==
    \/ \E h \in Headers, tenant_name \in PathTenantNames, data \in ProductInputs :
          CreateProduct(h, tenant_name, data)
    \/ \E h \in Headers, tenant_name \in PathTenantNames, product_id \in ProductIds,
           data \in ProductInputs :
          UpdateProduct(h, tenant_name, product_id, data)
    \/ \E h \in Headers, tenant_name \in PathTenantNames, product_id \in ProductIds :
          DeleteProduct(h, tenant_name, product_id)

Spec == Init /\ [][Next]_vars

(* ------------------------------------------------------------------ *)
(* Tenants and tenant users (routers/tenant.py, routers/admin.py)      *)
(* ------------------------------------------------------------------ *)
\* The dependency require_platform_admin of a route: [resp, users, user]
AdminGate(h, ts, us) ==
    LET g == get_current_user(h, ts, us) IN
    IF g.resp # NoResp THEN [resp |-> g.resp, users |-> us, user |-> NoRow]
    ELSE IF ~require_platform_admin(g.user)
    THEN [resp |-> PermissionDenied, users |-> g.users, user |-> g.user]
    ELSE [resp |-> NoResp, users |-> g.users, user |-> g.user]

\* TenantCreate: name of 1..100 characters
ValidTenantCreate(name) == Len(name) >= 1

\* crud.create_tenant: [resp, tenants]
create_tenant(ts, name) ==
    IF get_tenant_by_name(ts, name).id # NULL THEN [resp |-> AlreadyExists, tenants |-> ts]
    ELSE [resp |-> Ok, tenants |-> ts \cup {[id |-> NewId(ts), name |-> name]}]

\* Mutant: the tenant's users are left as they are
delete_tenant_NoDetach(ts, us, ps, its, fv, tenant) ==
    LET gone == {p.id : p \in {q \in ps : q.tenant_id = tenant.id}} IN
    [tenants |-> ts \ {tenant},
     users |-> us,
     products |-> {p \in ps : p.tenant_id # tenant.id},
     items |-> {it \in its : it.product_id \notin gone},
     favs |-> {f \in fv : f[2] \notin gone}]

\* crud.delete_tenant: the tenant's users are dissociated, the tenant is deleted
\* and its products with it, each with its order items and favourites
delete_tenant(ts, us, ps, its, fv, tenant) ==
    LET gone == {p.id : p \in {q \in ps : q.tenant_id = tenant.id}} IN
    [tenants |-> ts \ {tenant},
     users |-> {IF u.tenant_id = tenant.id THEN [u EXCEPT !.tenant_id = NULL] ELSE u
                : u \in us},
     products |-> {p \in ps : p.tenant_id # tenant.id},
     items |-> {it \in its : it.product_id \notin gone},
     favs |-> {f \in fv : f[2] \notin gone}]

\* str.strip() of the usernames the requests carry
StripUsername(w) ==
    CASE w = " cat " -> "cat"
      [] w = " " -> ""
      [] OTHER -> w

\* The body's password is null
NoPassword == ""

\* UserCreate: username of 1..50 characters and not blank
ValidUserCreate(data) == data.username # "" /\ StripUsername(data.username) # ""

\* UserCreate.username_not_empty returns the stripped username
ParsedUserCreate(data) == [data EXCEPT !.username = StripUsername(@)]

\* update_tenant_user, the tenant that goes with the new role
UpdatedTenantId(user, role, tenant) ==
    IF role \in {"platform_admin", "user"} THEN NULL
    ELSE IF role = "tenant_admin" THEN tenant.id
    ELSE user.tenant_id

\* assign_user_to_tenant, the tenant that goes with the new role
AssignedTenantId(role, tenant) == IF role = "tenant_admin" THEN tenant.id ELSE NULL

\* Mutant: the user's orders stay
DeleteUserRows_KeepsOrders(us, os, its, fv, user) ==
    [users |-> us \ {user},
     orders |-> os,
     items |-> its,
     favs |-> {f \in fv : f[1] # user.id}]

\* db.delete(user) and the commit: the user's orders go with it (cascade
\* 'all, delete-orphan'), their items, and the user's rows of user_favourites
DeleteUserRows(us, os, its, fv, user) ==
    LET gone == {o.id : o \in {x \in os : x.user_id = user.id}} IN
    [users |-> us \ {user},
     orders |-> {o \in os : o.user_id # user.id},
     items |-> {it \in its : it.order_id \notin gone},
     favs |-> {f \in fv : f[1] # user.id}]

\* What the identity provider answers: to create_user (True, False for a 409,
\* an exception), to _get_user_id and update_user_role (done, no such user,
\* an exception), to delete_user (done, an exception)
KcCreate == {"created", "exists", "error"}
KcRole == {"updated", "absent", "error"}
KcDelete == {"deleted", "error"}

\* The outcomes of a call the handler comes to; "none" when it does not call
KcAsked(asked, outcomes) == IF asked THEN outcomes ELSE {"none"}

\* Mutant: a failed keycloak_admin.create_user is passed over
AfterKcCreate_Swallowed(kc) == NoResp

\* The try/except around keycloak_admin.create_user: an exception ends the
\* request with 500, "created" and "exists" (False) let it go on
AfterKcCreate(kc) == IF kc = "error" THEN ServerError ELSE NoResp

\* GET /tenants/
ListTenants(h) ==
    LET g == AdminGate(h, tenants, users) IN
    /\ MoreRequests
    /\ users' = g.users
    /\ last' = [n |-> last.n + 1, op |-> "listTenants", h |-> h,
                resp |-> IF g.resp # NoResp THEN g.resp ELSE Ok]
    /\ UNCHANGED <<tenants, products, orders, items, favs, reqs, stock0>>

\* POST /tenants/
CreateTenant(h, name) ==
    LET g == AdminGate(h, tenants, users)
        c == create_tenant(tenants, name)
        resp == IF g.resp # NoResp THEN g.resp
                ELSE IF ~ValidTenantCreate(name) THEN Unprocessable
                ELSE IF get_tenant_by_name(tenants, name).id # NULL THEN AlreadyExists
                ELSE c.resp
    IN
    /\ MoreRequests
    /\ users' = g.users
    /\ tenants' = IF resp = Ok THEN c.tenants ELSE tenants
    /\ last' = [n |-> last.n + 1, op |-> "createTenant", h |-> h, name |-> name,
                resp |-> resp]
    /\ UNCHANGED <<products, orders, items, favs, reqs, stock0>>

\* DELETE /tenants/{tenant_name}
DeleteTenant(h, tenant_name) ==
    LET g == AdminGate(h, tenants, users)
        tenant == get_tenant_by_name(tenants, tenant_name)
        resp == IF g.resp # NoResp THEN g.resp
                ELSE IF tenant.id = NULL THEN NotFound
                ELSE Ok
        d == delete_tenant(tenants, g.users, products, items, favs, tenant)
    IN
    /\ MoreRequests
    /\ IF resp = Ok
       THEN /\ tenants' = d.tenants /\ users' = d.users /\ products' = d.products
            /\ items' = d.items /\ favs' = d.favs
       ELSE /\ users' = g.users
            /\ UNCHANGED <<tenants, products, items, favs>>
    /\ last' = [n |-> last.n + 1, op |-> "deleteTenant", h |-> h,
                tenant_name |-> tenant_name, resp |-> resp]
    /\ UNCHANGED <<orders, reqs, stock0>>

\* GET /tenants/{tenant_name}/users/
ListTenantUsers(h, tenant_name) ==
    LET g == AdminGate(h, tenants, users)
        tenant == get_tenant_by_name(tenants, tenant_name)
        resp == IF g.resp # NoResp THEN g.resp
                ELSE IF tenant.id = NULL THEN NotFound
                ELSE Ok
    IN
    /\ MoreRequests
    /\ users' = g.users
    /\ last' = [n |-> last.n + 1, op |-> "listUsers", h |-> h,
                tenant_name |-> tenant_name, resp |-> resp]
    /\ UNCHANGED <<tenants, products, orders, items, favs, reqs, stock0>>

\* POST /tenants/{tenant_name}/users/
CreateTenantUser(h, tenant_name, data) ==
    LET g == AdminGate(h, tenants, users)
        tenant == get_tenant_by_name(tenants, tenant_name)
        parsed == ParsedUserCreate(data)
        early == IF g.resp # NoResp THEN g.resp
                 ELSE IF tenant.id = NULL THEN NotFound
                 ELSE IF ~ValidUserCreate(data) THEN Unprocessable
                 ELSE IF get_user_by_username(g.users, parsed.username).id # NULL
                 THEN AlreadyExists
                 ELSE IF data.password = NoPassword THEN PasswordRequired
                 ELSE NoResp
    IN
    /\ MoreRequests
    /\ \E kc \in KcAsked(early = NoResp, KcCreate) :
         LET resp == IF early # NoResp THEN early
                     ELSE IF AfterKcCreate(kc) # NoResp THEN AfterKcCreate(kc)
                     ELSE Ok
         IN /\ users' = IF resp = Ok
                         THEN g.users \cup {NewUser(g.users, parsed.username,
                                                    data.role, tenant)}
                         ELSE g.users
            /\ last' = [n |-> last.n + 1, op |-> "createUser", h |-> h,
                        tenant_name |-> tenant_name, user_id |-> NULL, data |-> data,
                        kc |-> kc, resp |-> resp]
    /\ UNCHANGED <<tenants, products, orders, items, favs, reqs, stock0>>

\* PUT /tenants/{tenant_name}/users/{user_id}
UpdateTenantUser(h, tenant_name, user_id, data) ==
    LET g == AdminGate(h, tenants, users)
        tenant == get_tenant_by_name(tenants, tenant_name)
        user == First({u \in g.users : u.id = user_id /\ u.tenant_id = tenant.id})
        early == IF g.resp # NoResp THEN g.resp
                 ELSE IF tenant.id = NULL THEN NotFound
                 ELSE IF ~ValidUserCreate(data) THEN Unprocessable
                 ELSE IF user.id = NULL THEN NotFound
                 ELSE NoResp
        row == [user EXCEPT !.role = data.role,
                            !.tenant_id = UpdatedTenantId(user, data.role, tenant)]
    IN
    /\ MoreRequests
    /\ \E kc \in KcAsked(early = NoResp /\ user.role # data.role, KcRole) :
         LET resp == IF early # NoResp THEN early
                     ELSE IF kc = "error" THEN ServerError
                     ELSE Ok
         IN /\ users' = IF resp = Ok THEN (g.users \ {user}) \cup {row} ELSE g.users
            /\ last' = [n |-> last.n + 1, op |-> "updateUser", h |-> h,
                        tenant_name |-> tenant_name, user_id |-> user_id, data |-> data,
                        kc |-> kc, resp |-> resp]
    /\ UNCHANGED <<tenants, products, orders, items, favs, reqs, stock0>>

\* POST /tenants/{tenant_name}/users/assign
AssignUserToTenant(h, tenant_name, data) ==
    LET g == AdminGate(h, tenants, users)
        tenant == get_tenant_by_name(tenants, tenant_name)
        parsed == ParsedUserCreate(data)
        user == get_user_by_username(g.users, parsed.username)
        early == IF g.resp # NoResp THEN g.resp
                 ELSE IF tenant.id = NULL THEN NotFound
                 ELSE IF ~ValidUserCreate(data) THEN Unprocessable
                 ELSE IF user.id = NULL THEN NotFound
                 ELSE NoResp
        row == [user EXCEPT !.role = data.role,
                            !.tenant_id = AssignedTenantId(data.role, tenant)]
    IN
    /\ MoreRequests
    /\ \E kc \in KcAsked(early = NoResp /\ user.role # data.role, KcRole) :
         LET resp == IF early # NoResp THEN early
                     ELSE IF kc = "error" THEN ServerError
                     ELSE Ok
         IN /\ users' = IF resp = Ok THEN (g.users \ {user}) \cup {row} ELSE g.users
            /\ last' = [n |-> last.n + 1, op |-> "assignUser", h |-> h,
                        tenant_name |-> tenant_name, user_id |-> NULL, data |-> data,
                        kc |-> kc, resp |-> resp]
    /\ UNCHANGED <<tenants, products, orders, items, favs, reqs, stock0>>

\* DELETE /tenants/{tenant_name}/users/{user_id}
DeleteTenantUser(h, tenant_name, user_id) ==
    LET g == AdminGate(h, tenants, users)
        tenant == get_tenant_by_name(tenants, tenant_name)
        user == First({u \in g.users : u.id = user_id /\ u.tenant_id = tenant.id})
        resp == IF g.resp # NoResp THEN g.resp
                ELSE IF tenant.id = NULL THEN NotFound
                ELSE IF user.id = NULL THEN NotFound
                ELSE Ok
        d == DeleteUserRows(g.users, orders, items, favs, user)
    IN
    /\ MoreRequests
    /\ \E kc \in KcAsked(resp = Ok, KcDelete) :
         last' = [n |-> last.n + 1, op |-> "deleteUser", h |-> h,
                  tenant_name |-> tenant_name, user_id |-> user_id, data |-> NoData,
                  kc |-> kc, resp |-> resp]
    /\ IF resp = Ok
       THEN users' = d.users /\ orders' = d.orders /\ items' = d.items /\ favs' = d.favs
       ELSE users' = g.users /\ UNCHANGED <<orders, items, favs>>
    /\ UNCHANGED <<tenants, products, reqs, stock0>>

\* Authorization headers of the management requests: none, a token the verifier
\* rejects, the platform admin, ann as tenant admin of N, the plain user bob
AdminHeaders ==
    {NoHeader, Header("Bearer", "expired-token"), Header("Bearer", "platform-admin-token"),
     Header("Bearer", "nike-admin-token"), Header("Bearer", "user-token")}

\* TenantCreate names: one that differs in case from N, a new one in two cases,
\* the empty one
TenantNameInputs == {<<"n">>, <<"Z">>, <<"z">>, <<>>}

UserInputs ==
    [username : {"bob", " cat ", " "},
     role : {"user", "tenant_admin", "platform_admin"},
     password : {NoPassword, "secret"}]

\* Bodies of the requests that read the role only, or the username and the role
RoleInputs == {d \in UserInputs : d.username = "bob" /\ d.password = "secret"}
AssignInputs == {d \in UserInputs : d.password = "secret"}

\* {user_id} of the path: ann, bob, the user created next
UserIds == 2..4

\* The three principals have signed in; ann is the tenant admin of N.  Each
\* tenant sells one product
AdminUsers ==
    {[id |-> 1, username |-> "root", role |-> "platform_admin", tenant_id |-> NULL],
     [id |-> 2, username |-> "ann", role |-> "tenant_admin", tenant_id |-> 1],
     [id |-> 3, username |-> "bob", role |-> "user", tenant_id |-> NULL]}

InitAdmin ==
    /\ tenants = ShopTenants
    /\ users = AdminUsers
    /\ products = ShopProducts(MaxStock, ShopStock2)
    /\ orders = {}
    /\ items = {}
    /\ favs = {}
    /\ reqs = [r \in Slots |-> IdleReq]
    /\ stock0 = <<>>
    /\ last = NoLast

NextAdmin ==
    \/ \E h \in AdminHeaders : ListTenants(h)
    \/ \E h \in AdminHeaders, name \in TenantNameInputs : CreateTenant(h, name)
    \/ \E h \in AdminHeaders, tenant_name \in PathTenantNames : DeleteTenant(h, tenant_name)
    \/ \E h \in AdminHeaders, tenant_name \in PathTenantNames :
          ListTenantUsers(h, tenant_name)
    \/ \E h \in AdminHeaders, tenant_name \in PathTenantNames, data \in UserInputs :
          CreateTenantUser(h, tenant_name, data)
    \/ \E h \in AdminHeaders, tenant_name \in PathTenantNames, user_id \in UserIds,
           data \in RoleInputs :
          UpdateTenantUser(h, tenant_name, user_id, data)
    \/ \E h \in AdminHeaders, tenant_name \in PathTenantNames, data \in AssignInputs :
          AssignUserToTenant(h, tenant_name, data)
    \/ \E h \in AdminHeaders, tenant_name \in PathTenantNames, user_id \in UserIds :
          DeleteTenantUser(h, tenant_name, user_id)

SpecAdmin == InitAdmin /\ [][NextAdmin]_vars

(* ------------------------------------------------------------------ *)
(* POST /tenants/, statement by statement                              *)
(* ------------------------------------------------------------------ *)
\* Column(String, unique=True) of Tenant.name: the index compares the names as
\* written
TenantNameTaken(ts, name) == \E t \in ts : t.name = name

\* create_tenant_endpoint up to crud.create_tenant: require_platform_admin, the
\* body's schema, the route's own lookup of the name
BeginCreateTenant(r, h, name) ==
    LET g == AdminGate(h, tenants, users) IN
    /\ Idle(r)
    /\ users' = g.users
    /\ reqs' = [reqs EXCEPT ![r] =
            IF g.resp # NoResp THEN Answered("createTenant", 0, g.resp)
            ELSE IF ~ValidTenantCreate(name) THEN Answered("createTenant", 0, Unprocessable)
            ELSE IF get_tenant_by_name(tenants, name).id # NULL
            THEN Answered("createTenant", 0, AlreadyExists)
            ELSE [IdleReq EXCEPT !.pc = "lookup", !.op = "createTenant",
                                 !.data = [NoData EXCEPT !.name = name]]]
    /\ UNCHANGED <<tenants, products, orders, items, favs, stock0, last>>

\* crud.create_tenant's lookup of the name, and Tenant(name=name) added
CreateTenantLookup(r) ==
    LET q == reqs[r] IN
    /\ q.pc = "lookup"
    /\ reqs' = [reqs EXCEPT ![r] =
            IF get_tenant_by_name(tenants, q.data.name).id # NULL
            THEN Answered("createTenant", 0, AlreadyExists)
            ELSE [q EXCEPT !.pc = "insert"]]
    /\ UNCHANGED <<tenants, users, products, orders, items, favs, stock0, last>>

\* crud.create_tenant's db.commit(): the INSERT, which the unique index refuses
\* (IntegrityError) when the name is there as written
CreateTenantCommit(r) ==
    LET q == reqs[r] IN
    /\ q.pc = "insert"
    /\ IF TenantNameTaken(tenants, q.data.name)
       THEN /\ reqs' = [reqs EXCEPT ![r] = Answered("createTenant", 0, ServerError)]
            /\ UNCHANGED tenants
       ELSE /\ reqs' = [reqs EXCEPT ![r] = Answered("createTenant", 0, Ok)]
            /\ tenants' = tenants \cup {[id |-> NewId(tenants), name |-> q.data.name]}
    /\ UNCHANGED <<users, products, orders, items, favs, stock0, last>>

\* NumReq clients, one createTenant each, interleaved
NextTenantRace ==
    \E r \in Slots :
        \/ \E h \in AdminHeaders, name \in TenantNameInputs : BeginCreateTenant(r, h, name)
        \/ CreateTenantLookup(r)
        \/ CreateTenantCommit(r)

SpecTenantRace == InitAdmin /\ [][NextTenantRace]_vars

(* ------------------------------------------------------------------ *)
(* Product names under creation and renaming                           *)
(* ------------------------------------------------------------------ *)
\* Tenant N sells X and Y
RenameProducts ==
    {[id |-> 1, name |-> <<"X">>, price |-> 2, qty |-> 1, tenant_id |-> 1],
     [id |-> 2, name |-> <<"Y">>, price |-> 2, qty |-> 1, tenant_id |-> 1]}

\* The callers who may manage the products of N
RenameHeaders ==
    {Header("Bearer", "platform-admin-token"), Header("Bearer", "nike-admin-token")}

RenameTenantNames == {<<"n">>, <<"A">>}

\* ProductCreate bodies with the names on sale, in both cases
RenameInputs ==
    [name : {<<"X">>, <<"x">>, <<"Y">>, <<"y", " ">>}, price : {2}, qty : {0, 1}]

RenameIds == 1..(MaxRequests + 1)

InitRename ==
    /\ tenants = ShopTenants
    /\ users = AdminUsers
    /\ products = RenameProducts
    /\ orders = {}
    /\ items = {}
    /\ favs = {}
    /\ reqs = [r \in Slots |-> IdleReq]
    /\ stock0 = <<>>
    /\ last = NoLast

NextRename ==
    \/ \E h \in RenameHeaders, tenant_name \in RenameTenantNames, data \in RenameInputs :
          CreateProduct(h, tenant_name, data)
    \/ \E h \in RenameHeaders, tenant_name \in RenameTenantNames, product_id \in RenameIds,
           data \in RenameInputs :
          UpdateProduct(h, tenant_name, product_id, data)

SpecRename == InitRename /\ [][NextRename]_vars

(* ================================================================== *)
(* Listings                                                            *)
(* ================================================================== *)
DEFAULT_SKIP == 0
DEFAULT_LIMIT == 10
MAX_LIMIT == 100

\* The rows of a query without ORDER BY, by ascending id
RECURSIVE Ascending(_)
Ascending(S) ==
    IF S = {} THEN <<>>
    ELSE LET m == CHOOSE x \in S : \A y \in S : x <= y
         IN <<m>> \o Ascending(S \ {m})

\* Python's s[skip:skip+limit]: a negative bound counts from the end, every
\* bound is clipped to the list
PySlice(s, skip, limit) ==
    LET norm(i) == IF i < 0 THEN (IF Len(s) + i < 0 THEN 0 ELSE Len(s) + i)
                   ELSE IF i > Len(s) THEN Len(s) ELSE i
        a == norm(skip)
        b == norm(skip + limit)
    IN IF b <= a THEN <<>> ELSE SubSeq(s, a + 1, b)

\* query.offset(skip).limit(limit).all() for skip >= 0 and limit >= 1
Window(s, skip, limit) ==
    IF skip >= Len(s) THEN <<>>
    ELSE SubSeq(s, skip + 1, IF skip + limit > Len(s) THEN Len(s) ELSE skip + limit)

\* crud.list_favourites: user.favourites[skip:skip+limit], as product ids
list_favourites(fv, user, skip, limit) ==
    PySlice(Ascending({f[2] : f \in {x \in fv : x[1] = user.id}}), skip, limit)

\* Mutant: the orders of every user are listed
list_orders_for_user_All(os, user, skip, limit) ==
    Window(Ascending({o.id : o \in os}), skip, limit)

\* crud.list_orders_for_user: the caller's orders, as order ids
list_orders_for_user(os, user, skip, limit) ==
    Window(Ascending({o.id : o \in {x \in os : x.user_id = user.id}}), skip, limit)

(* ================================================================== *)
(* Identity resolution over the claims a verified token can carry      *)
(* ================================================================== *)

\* GET /users/me/favourites?skip=&limit= by a caller whose bearer token verified
\* to `claims`: the identity is resolved, nothing else is written; skip and
\* limit are plain integers
ListFavourites(claims, skip, limit) ==
    LET g == ResolveClaims(claims, tenants, users)
        resp == IF g.resp # NoResp THEN g.resp ELSE Ok
    IN
    /\ MoreRequests
    /\ users' = g.users
    /\ last' = [n |-> last.n + 1, op |-> "listFavourites", claims |-> claims,
                skip |-> skip, limit |-> limit, resp |-> resp,
                listed |-> IF resp = Ok THEN list_favourites(favs, g.user, skip, limit)
                           ELSE <<>>]
    /\ UNCHANGED <<tenants, products, orders, items, favs, reqs, stock0>>

\* Verified claims: ann (a stored user) or eve (a new one), with or without
\* realm_access, any roles list, no 'role' claim ("") or one, and no tenant, the
\* tenant N or A in either case, or a tenant that does not exist; a token the
\* verifier rejects; claims without preferred_username and sub
ClaimInputs ==
    {[valid |-> TRUE, username |-> n, realm |-> rl, roles |-> rs,
      has_role |-> r # "", role |-> r, tenant |-> t] :
        n \in {"ann", "eve"}, rl \in BOOLEAN,
        rs \in SUBSET {"platform_admin", "tenant_admin"},
        r \in {"", "user", "tenant_admin"},
        t \in {<<>>, <<"n">>, <<"A">>, <<"Z">>}}
    \cup {NoClaims, Claims("", {"platform_admin"}, <<"n">>)}

\* The bearer headers of the platform admin, of a token the verifier rejects and
\* of a token without a username
IdentityHeaders ==
    {Header("Bearer", token) :
        token \in {"platform-admin-token", "expired-token", "nameless-token"}}

NextIdentity ==
    \/ \E claims \in ClaimInputs : ListFavourites(claims, DEFAULT_SKIP, DEFAULT_LIMIT)
    \/ \E h \in IdentityHeaders, data \in AssignInputs :
          AssignUserToTenant(h, <<"A">>, data)

SpecIdentity == InitAdmin /\ [][NextIdentity]_vars

(* ================================================================== *)
(* Favourites and orders across tenants                                *)
(* ================================================================== *)

\* Mutant: only products of the caller's own tenant can be favourited
add_favourite_OwnTenant(fv, user, product) ==
    IF <<user.id, product.id>> \in fv THEN [resp |-> AlreadyExists, favs |-> fv]
    ELSE IF user.tenant_id # product.tenant_id THEN [resp |-> PermissionDenied, favs |-> fv]
    ELSE [resp |-> Ok, favs |-> fv \cup {<<user.id, product.id>>}]

\* crud.add_favourite: [resp, favs]
add_favourite(fv, user, product) ==
    IF <<user.id, product.id>> \in fv THEN [resp |-> AlreadyExists, favs |-> fv]
    ELSE [resp |-> Ok, favs |-> fv \cup {<<user.id, product.id>>}]

\* Mutant: removing a favourite that is not there succeeds
remove_favourite_NoCheck(fv, user, product) ==
    [resp |-> Ok, favs |-> fv \ {<<user.id, product.id>>}]

\* crud.remove_favourite: [resp, favs]
remove_favourite(fv, user, product) ==
    IF <<user.id, product.id>> \notin fv THEN [resp |-> NotFound, favs |-> fv]
    ELSE [resp |-> Ok, favs |-> fv \ {<<user.id, product.id>>}]

\* POST /users/me/favourites/{product_id}
MarkFavourite(h, product_id) ==
    LET g == get_current_user(h, tenants, users)
        prod == get_product(products, product_id)
        r == add_favourite(favs, g.user, prod)
        resp == IF g.resp # NoResp THEN g.resp
                ELSE IF prod.id = NULL THEN NotFound
                ELSE r.resp
    IN
    /\ MoreRequests
    /\ users' = g.users
    /\ favs' = IF resp = Ok THEN r.favs ELSE favs
    /\ last' = [n |-> last.n + 1, op |-> "favourite", h |-> h,
                product_id |-> product_id, resp |-> resp]
    /\ UNCHANGED <<tenants, products, orders, items, reqs, stock0>>

\* DELETE /users/me/favourites/{product_id}
UnmarkFavourite(h, product_id) ==
    LET g == get_current_user(h, tenants, users)
        prod == get_product(products, product_id)
        r == remove_favourite(favs, g.user, prod)
        resp == IF g.resp # NoResp THEN g.resp
                ELSE IF prod.id = NULL THEN NotFound
                ELSE r.resp
    IN
    /\ MoreRequests
    /\ users' = g.users
    /\ favs' = IF resp = Ok THEN r.favs ELSE favs
    /\ last' = [n |-> last.n + 1, op |-> "unfavourite", h |-> h,
                product_id |-> product_id, resp |-> resp]
    /\ UNCHANGED <<tenants, products, orders, items, reqs, stock0>>

\* Callers of every role: none, the platform admin, the admin of N, the same
\* person with a token for A, a plain user
FavHeaders ==
    {NoHeader, Header("Bearer", "platform-admin-token"), Header("Bearer", "nike-admin-token"),
     Header("Bearer", "adidas-admin-token"), Header("Bearer", "user-token")}

\* {product_id} of the path: X of tenant N, Y of tenant A, one that does not exist
FavProductIds == 1..3

\* Orders of one unit per line of the two products
FavOrderInputs ==
    {input \in OrderInputs :
        \A k \in DOMAIN input : input[k].quantity = 1 /\ input[k].product_id \in {1, 2}}

\* bob has X among his favourites
InitFav ==
    /\ tenants = ShopTenants
    /\ users = AdminUsers
    /\ products = ShopProducts(MaxStock, ShopStock2)
    /\ orders = {}
    /\ items = {}
    /\ favs = {<<3, 1>>}
    /\ reqs = [i \in Slots |-> IdleReq]
    /\ stock0 = <<>>
    /\ last = NoLast

NextFav ==
    \/ \E h \in FavHeaders, product_id \in FavProductIds : MarkFavourite(h, product_id)
    \/ \E h \in FavHeaders, product_id \in FavProductIds : UnmarkFavourite(h, product_id)
    \/ \E h \in FavHeaders, input \in FavOrderInputs : CreateOrder(h, input)

SpecFav == InitFav /\ [][NextFav]_vars

(* ================================================================== *)
(* Signup                                                              *)
(* ================================================================== *)

\* UserSignup: username of 1..50 characters and not blank, password of at
\* least 4 characters
ValidUserSignup(data) ==
    /\ data.username # "" /\ StripUsername(data.username) # ""
    /\ data.password \notin {"", "abc"}

\* Mutant: the role is taken from the body when it names one
SignupRole_FromBody(data) == IF data.role # "" THEN data.role ELSE "user"

\* signup, the role of the new user: 'user' whatever the body holds
SignupRole(data) == "user"

\* POST /users/signup, open to everyone
Signup(data) ==
    LET username == StripUsername(data.username)
        early == IF ~ValidUserSignup(data) THEN Unprocessable
                 ELSE IF get_user_by_username(users, username).id # NULL THEN AlreadyExists
                 ELSE NoResp
    IN
    /\ MoreRequests
    /\ \E kc \in KcAsked(early = NoResp, KcCreate) :
         LET resp == IF early # NoResp THEN early
                     ELSE IF AfterKcCreate(kc) # NoResp THEN AfterKcCreate(kc)
                     ELSE Ok
         IN /\ users' = IF resp = Ok
                         THEN users \cup {NewUser(users, username, SignupRole(data), NoRow)}
                         ELSE users
            /\ last' = [n |-> last.n + 1, op |-> "signup", data |-> data, kc |-> kc,
                        resp |-> resp]
    /\ UNCHANGED <<tenants, products, orders, items, favs, reqs, stock0>>

\* Signup bodies: a taken username, new ones, a blank one; a short password;
\* with or without a role field, which UserSignup does not declare
SignupInputs ==
    [username : {"bob", " cat ", "dan", " "}, password : {"abc", "secret"},
     role : {"", "platform_admin"}]

NextSignup ==
    \/ \E data \in SignupInputs : Signup(data)
    \/ \E h \in AdminHeaders, tenant_name \in PathTenantNames, data \in UserInputs :
          CreateTenantUser(h, tenant_name, data)

SpecSignup == InitAdmin /\ [][NextSignup]_vars

(* ================================================================== *)
(* Listings of orders and favourites over a shop in use                *)
(* ================================================================== *)

\* GET /orders/?skip=&limit=
ListOrders(h, skip, limit) ==
    LET g == get_current_user(h, tenants, users)
        resp == IF g.resp # NoResp THEN g.resp
                ELSE IF skip < 0 \/ limit < 1 \/ limit > MAX_LIMIT THEN Unprocessable
                ELSE Ok
    IN
    /\ MoreRequests
    /\ users' = g.users
    /\ last' = [n |-> last.n + 1, op |-> "listOrders", h |-> h,
                skip |-> skip, limit |-> limit, resp |-> resp,
                listed |-> IF resp = Ok THEN list_orders_for_user(orders, g.user, skip, limit)
                           ELSE <<>>]
    /\ UNCHANGED <<tenants, products, orders, items, favs, reqs, stock0>>

\* skip and limit of the query string
PageInputs == {-1, DEFAULT_SKIP, 1} \X {0, 1, DEFAULT_LIMIT, MAX_LIMIT + 1}

\* bob has ordered X and Y (order 1), ann has ordered X (order 2); bob has X
\* and Y among his favourites, ann has Y
InitBusy ==
    /\ tenants = ShopTenants
    /\ users = AdminUsers
    /\ products = ShopProducts(MaxStock, ShopStock2)
    /\ orders = {[id |-> 1, user_id |-> 3, total_quantity |-> 2, total_amount |-> 4],
                 [id |-> 2, user_id |-> 2, total_quantity |-> 1, total_amount |-> 3]}
    /\ items = {[id |-> 1, order_id |-> 1, product_id |-> 1, quantity |-> 1, unit_price |-> 3],
                [id |-> 2, order_id |-> 1, product_id |-> 2, quantity |-> 1, unit_price |-> 1],
                [id |-> 3, order_id |-> 2, product_id |-> 1, quantity |-> 1, unit_price |-> 3]}
    /\ favs = {<<3, 1>>, <<3, 2>>, <<2, 2>>}
    /\ reqs = [i \in Slots |-> IdleReq]
    /\ stock0 = <<>>
    /\ last = NoLast

\* What the verifier returns for the tokens of ann and of bob and for a token
\* it rejects
ListClaims ==
    {verify_jwt_token(token) : token \in {"nike-admin-token", "user-token", "expired-token"}}

NextList ==
    \/ \E h \in FavHeaders, page \in PageInputs : ListOrders(h, page[1], page[2])
    \/ \E claims \in ListClaims, page \in PageInputs :
          ListFavourites(claims, page[1], page[2])
    \/ \E h \in FavHeaders, product_id \in FavProductIds : MarkFavourite(h, product_id)
    \/ \E h \in FavHeaders, input \in FavOrderInputs : CreateOrder(h, input)

SpecList == InitBusy /\ [][NextList]_vars

(* ================================================================== *)
(* Requests waiting for the key endpoint and the provider's admin API  *)
(* ================================================================== *)

\* The call a request is waiting in: requests.get of the JWKS, requests.post
\* for the admin token, requests.request of the admin API, and the same two
\* again after a 401
ExternalCalls == {"jwks", "admin_token", "admin_api", "token_refresh", "admin_retry"}

\* Whether the call is made with timeout=: _fetch_jwks passes timeout=5,
\* _get_admin_token and _make_request pass none
HasTimeout(pc) == pc = "jwks"

\* POST /users/signup up to keycloak_admin.create_user's first external call;
\* `cached` says whether the admin token is already held
BeginSignup(r, data, cached) ==
    LET username == StripUsername(data.username)
        early == IF ~ValidUserSignup(data) THEN Unprocessable
                 ELSE IF get_user_by_username(users, username).id # NULL THEN AlreadyExists
                 ELSE NoResp
    IN
    /\ Idle(r)
    /\ reqs' = [reqs EXCEPT ![r] =
            IF early # NoResp THEN Answered("signup", 0, early)
            ELSE [IdleReq EXCEPT !.pc = IF cached THEN "admin_api" ELSE "admin_token",
                                 !.op = "signup", !.data = data]]
    /\ UNCHANGED <<tenants, users, products, orders, items, favs, stock0, last>>

\* GET /users/me/favourites up to verify_jwt_token's fetch of the keys;
\* `cached` says whether the keys are held and fresh
BeginListFavourites(r, h, cached) ==
    LET g == get_current_user(h, tenants, users) IN
    /\ Idle(r)
    /\ IF parse_authorization_header(h) = "" \/ cached
       THEN /\ users' = g.users
            /\ reqs' = [reqs EXCEPT ![r] =
                    Answered("listFavourites", 0, IF g.resp # NoResp THEN g.resp ELSE Ok)]
       ELSE /\ reqs' = [reqs EXCEPT ![r] =
                    [IdleReq EXCEPT !.pc = "jwks", !.op = "listFavourites", !.data = h]]
            /\ UNCHANGED users
    /\ UNCHANGED <<tenants, products, orders, items, favs, stock0, last>>

\* The external party answers the call request r is waiting in: "ok", "exists"
\* (409), "unauthorized" (401) or "error" (any other failure).  A 401 of the
\* admin API is retried once with a new admin token; the requests that follow
\* a 201 (user id, password, role) are made the same way and count as one
Answer(r, a) ==
    LET q == reqs[r]
        g == get_current_user(q.data, tenants, users)
        username == StripUsername(q.data.username)
        ends == \/ q.pc \in {"admin_token", "token_refresh"} /\ a # "ok"
                \/ q.pc = "admin_api" /\ a # "unauthorized"
                \/ q.pc = "admin_retry"
        created == /\ q.pc \in {"admin_api", "admin_retry"} /\ a \in {"ok", "exists"}
                   /\ get_user_by_username(users, username).id = NULL
    IN
    /\ q.pc \in ExternalCalls
    /\ IF q.pc = "jwks"
       THEN IF a = "ok"
            THEN /\ users' = g.users
                 /\ reqs' = [reqs EXCEPT ![r] =
                         Answered(q.op, 0, IF g.resp # NoResp THEN g.resp ELSE Ok)]
            ELSE /\ reqs' = [reqs EXCEPT ![r] = Answered(q.op, 0, InvalidToken)]
                 /\ UNCHANGED users
       ELSE IF ends
       THEN /\ users' = IF created
                        THEN users \cup {NewUser(users, username, SignupRole(q.data), NoRow)}
                        ELSE users
            /\ reqs' = [reqs EXCEPT ![r] =
                    Answered(q.op, 0, IF created THEN Ok ELSE ServerError)]
       ELSE /\ reqs' = [reqs EXCEPT ![r] =
                    [q EXCEPT !.pc = CASE q.pc = "admin_token" -> "admin_api"
                                       [] q.pc = "admin_api" -> "token_refresh"
                                       [] OTHER -> "admin_retry"]]
            /\ UNCHANGED users
    /\ UNCHANGED <<tenants, products, orders, items, favs, stock0, last>>

\* requests raises Timeout in a call that was made with timeout=
Timeout(r) ==
    LET q == reqs[r] IN
    /\ q.pc \in ExternalCalls /\ HasTimeout(q.pc)
    /\ reqs' = [reqs EXCEPT ![r] =
            Answered(q.op, 0, IF q.pc = "jwks" THEN InvalidToken ELSE ServerError)]
    /\ UNCHANGED <<tenants, users, products, orders, items, favs, stock0, last>>

NextExternal ==
    \E r \in Slots :
        \/ \E data \in SignupInputs, cached \in BOOLEAN : BeginSignup(r, data, cached)
        \/ \E h \in OrderHeaders, cached \in BOOLEAN : BeginListFavourites(r, h, cached)
        \/ \E a \in {"ok", "exists", "unauthorized", "error"} : Answer(r, a)
        \/ Timeout(r)

\* The server goes on whenever it can; nothing makes the external party answer
SpecExternal ==
    InitAdmin /\ [][NextExternal]_vars /\ WF_vars(\E r \in Slots : Timeout(r))

(* ================================================================== *)
(* Every handler over a shop in use                                    *)
(* ================================================================== *)
NextAll ==
    \/ \E h \in FavHeaders, input \in FavOrderInputs : CreateOrder(h, input)
    \/ \E h \in FavHeaders, page \in {<<DEFAULT_SKIP, DEFAULT_LIMIT>>} :
          ListOrders(h, page[1], page[2])
    \/ \E claims \in ListClaims : ListFavourites(claims, DEFAULT_SKIP, DEFAULT_LIMIT)
    \/ \E h \in FavHeaders, product_id \in FavProductIds : MarkFavourite(h, product_id)
    \/ \E h \in FavHeaders, product_id \in FavProductIds : UnmarkFavourite(h, product_id)
    \/ \E data \in SignupInputs : Signup(data)
    \/ \E h \in RenameHeaders, tenant_name \in RenameTenantNames, data \in RenameInputs :
          CreateProduct(h, tenant_name, data)
    \/ \E h \in FavHeaders, tenant_name \in RenameTenantNames, product_id \in 1..2,
          data \in RenameInputs :
          UpdateProduct(h, tenant_name, product_id, data)
    \/ \E h \in FavHeaders, tenant_name \in RenameTenantNames, product_id \in FavProductIds :
          DeleteProduct(h, tenant_name, product_id)
    \/ \E h \in AdminHeaders : ListTenants(h)
    \/ \E h \in AdminHeaders, name \in TenantNameInputs : CreateTenant(h, name)
    \/ \E h \in AdminHeaders, tenant_name \in PathTenantNames : DeleteTenant(h, tenant_name)
    \/ \E h \in RenameHeaders, tenant_name \in RenameTenantNames :
          ListTenantUsers(h, tenant_name)
    \/ \E h \in RenameHeaders, tenant_name \in RenameTenantNames, data \in UserInputs :
          CreateTenantUser(h, tenant_name, data)
    \/ \E h \in RenameHeaders, tenant_name \in RenameTenantNames, user_id \in UserIds,
          data \in RoleInputs :
          UpdateTenantUser(h, tenant_name, user_id, data)
    \/ \E h \in RenameHeaders, tenant_name \in RenameTenantNames, data \in AssignInputs :
          AssignUserToTenant(h, tenant_name, data)
    \/ \E h \in AdminHeaders, tenant_name \in RenameTenantNames, user_id \in UserIds :
          DeleteTenantUser(h, tenant_name, user_id)

SpecAll == InitBusy /\ [][NextAll]_vars

(* ================================================================== *)
(* Properties                                                          *)
(* ================================================================== *)
RECURSIVE SumQuantity(_)
SumQuantity(S) ==
    IF S = {} THEN 0
    ELSE LET x == CHOOSE y \in S : TRUE IN x.quantity + SumQuantity(S \ {x})

\* Units of product `pid` in the committed order items
Ordered(pid) == SumQuantity({it \in items : it.product_id = pid})

\* Units of product `pid` asked for by the lines 1..k of an order request
RECURSIVE Demand(_, _, _)
Demand(input, pid, k) ==
    IF k = 0 THEN 0
    ELSE Demand(input, pid, k - 1)
         + (IF input[k].product_id = pid THEN input[k].quantity ELSE 0)

\* The request that slot r was answered in this step
AnsweredNow(r) == reqs[r].pc # "done" /\ reqs'[r].pc = "done"

(* C1: a createOrder request that fails at any item (non-positive quantity,
   unknown product, insufficient stock) commits nothing: the step that answers
   it with an error leaves the orders, the order items and every product,
   those of its earlier valid items included, as they were. *)
C1_FailedOrderCommitsNothing ==
    [][\A r \in Slots :
          (AnsweredNow(r) /\ reqs'[r].op = "order" /\ reqs'[r].resp.status # 200)
          => (orders' = orders /\ items' = items /\ products' = products)]_vars

\* An order was refused for stock at its second line, after a first line that
\* had passed, while the other client's order was committed
C1_Witness ==
    \E r \in Slots :
        /\ reqs[r].pc = "done" /\ reqs[r].op = "order"
        /\ reqs[r].resp.kind = "InsufficientQuantity" /\ reqs[r].i = 2
        /\ orders # {}

(* C2: in every reachable state, under any interleaving of concurrent
   createOrder and updateProduct requests, the available_quantity of every
   product is >= 0. *)
C2_StockNeverNegative == \A p \in products : p.qty >= 0

\* Both clients' orders are committed and together they sold more units of
\* product 1 than any initial stock holds
C2_Witness ==
    /\ \A r \in Slots : reqs[r].pc = "done" /\ reqs[r].op = "order" /\ reqs[r].resp = Ok
    /\ Ordered(1) > MaxStock

(* C3: stock conservation: with no updateProduct, for every product the
   initial available_quantity minus the current one equals the quantities of
   the committed order items of that product, concurrent orders included. *)
C3_StockConservation ==
    \A p \in products : stock0[p.id] - p.qty = Ordered(p.id)

\* The local user a request's Authorization header stands for, once served
Caller(h) ==
    get_user_by_username(users', verify_jwt_token(parse_authorization_header(h)).username)

\* The header carries a bearer token that the verifier accepts
Authenticated(h) ==
    /\ h.present /\ h.scheme \in {"Bearer", "bearer", "BEARER"} /\ h.token # ""
    /\ verify_jwt_token(h.token).valid

\* Line k of an order request can be served: its quantity is positive, its
\* product exists and holds the line's quantity after the lines before it
LineValid(input, ps, k) ==
    /\ input[k].quantity > 0
    /\ \E p \in ps :
          /\ p.id = input[k].product_id
          /\ p.qty - Demand(input, p.id, k - 1) >= input[k].quantity

AllLinesValid(input, ps) ==
    input # <<>> /\ \A k \in DOMAIN input : LineValid(input, ps, k)

RECURSIVE SumAmount(_, _, _)
SumAmount(input, ps, k) ==
    IF k = 0 THEN 0
    ELSE SumAmount(input, ps, k - 1)
         + get_product(ps, input[k].product_id).price * input[k].quantity

(* C4: a createOrder request whose items are all valid commits exactly one
   Order owned by the caller, with one OrderItem per input line in input order,
   each with unit_price equal to the product's price; total_quantity is the sum
   of the line quantities, total_amount the sum of unit_price * quantity, and
   each product's available_quantity is reduced by exactly the quantities
   ordered for it. *)
C4_OrderCommitted ==
    [][(last'.op = "order" /\ Authenticated(last'.h)
        /\ AllLinesValid(last'.input, products))
       => LET input == last'.input
              n == Len(input)
              newOrders == orders' \ orders
              newItems == items' \ items
          IN /\ last'.resp = Ok
             /\ orders \subseteq orders' /\ items \subseteq items'
             /\ Cardinality(newOrders) = 1
             /\ Cardinality(newItems) = n
             /\ \A o \in newOrders :
                   /\ o.user_id = Caller(last'.h).id
                   /\ o.total_quantity = SumSeq([k \in 1..n |-> input[k].quantity])
                   /\ o.total_amount = SumAmount(input, products, n)
                   /\ \E f \in [1..n -> newItems] :
                         /\ \A j, k \in 1..n : j < k => f[j].id < f[k].id
                         /\ \A k \in 1..n :
                               /\ f[k].order_id = o.id
                               /\ f[k].product_id = input[k].product_id
                               /\ f[k].quantity = input[k].quantity
                               /\ f[k].unit_price =
                                     get_product(products, input[k].product_id).price
             /\ products' = {[p EXCEPT !.qty = @ - Demand(input, p.id, n)] : p \in products}
      ]_vars

\* A committed order of two lines for two products of different price
C4_Witness ==
    /\ last.op = "order" /\ last.resp = Ok /\ Len(last.input) = 2
    /\ last.input[1].product_id # last.input[2].product_id
    /\ \E o \in orders : o.total_quantity = 3 /\ o.total_amount > 3

\* The failure of line k as the order engine reports it
LineFailure(input, ps, k) ==
    LET p == get_product(ps, input[k].product_id)
        left == [p EXCEPT !.qty = @ - Demand(input, p.id, k - 1)]
    IN IF input[k].quantity <= 0 THEN InvalidQuantity
       ELSE IF p.id = NULL THEN NotFound
       ELSE InsufficientStock(left, input[k].quantity)

\* The first line that cannot be served
FirstInvalid(input, ps) ==
    CHOOSE k \in DOMAIN input :
        /\ ~LineValid(input, ps, k)
        /\ \A j \in 1..(k - 1) : LineValid(input, ps, j)

(* C5, as claimed: createOrder reports the first failure in this order: an empty
   list fails InvalidOperation (400); otherwise the items are examined in input
   order and the answer is the error of the first failing item: quantity <= 0
   ValidationError (400), unknown product NotFound (404), insufficient stock
   InsufficientQuantity (400) naming product, available and requested. *)
C5_FirstFailureReported ==
    [][(last'.op = "order" /\ Authenticated(last'.h)
        /\ ~AllLinesValid(last'.input, products))
       => last'.resp = IF last'.input = <<>> THEN InvalidOperation
                       ELSE LineFailure(last'.input, products,
                                        FirstInvalid(last'.input, products))
      ]_vars

\* The request body passes the schema: every product_id and quantity is > 0
SchemaValid(input) ==
    \A k \in DOMAIN input : input[k].product_id > 0 /\ input[k].quantity > 0

(* C5, amended: a request in which some item, at any position, has quantity <= 0
   or product_id <= 0 is rejected by request validation (422) before any item is
   examined.  Otherwise an empty list fails InvalidOperation (400), and the items
   are examined in input order and the answer is the error of the first failing
   item: unknown product NotFound (404) before the stock check, insufficient
   stock InsufficientQuantity (400) naming product, available and requested. *)
C5_FirstFailureAfterSchema ==
    [][(last'.op = "order" /\ Authenticated(last'.h)
        /\ ~AllLinesValid(last'.input, products))
       => last'.resp = IF ~SchemaValid(last'.input) THEN Unprocessable
                       ELSE IF last'.input = <<>> THEN InvalidOperation
                       ELSE LineFailure(last'.input, products,
                                        FirstInvalid(last'.input, products))
      ]_vars

\* An order whose first line names an unknown product and whose second line
\* asks for more than the stock was answered NotFound
C5_Witness ==
    /\ last.op = "order" /\ Len(last.input) = 2
    /\ last.resp = NotFound
    /\ get_product(products, last.input[1].product_id).id = NULL
    /\ \E p \in products : p.id = last.input[2].product_id /\ p.qty < last.input[2].quantity

\* The tenant a product request names in its path
PathTenant == get_tenant_by_name(tenants, last'.tenant_name)

\* The caller may manage the products of tenant T: a platform admin, or the
\* tenant admin of T
MayManage(c, T) ==
    \/ c.role = "platform_admin"
    \/ c.role = "tenant_admin" /\ c.tenant_id # NULL /\ c.tenant_id = T.id

ProductOps == {"create", "update", "delete"}

\* C6: creating, updating or deleting a product of tenant T succeeds only for a
\* principal resolved to platform_admin, or to tenant_admin of T; every other
\* authenticated principal is answered PermissionDenied (403) and the products
\* stay as they were.
C6_ProductMutationAuthorized ==
    [][last'.op \in ProductOps =>
         /\ last'.resp = Ok =>
               Authenticated(last'.h) /\ MayManage(Caller(last'.h), PathTenant)
         /\ (Authenticated(last'.h) /\ PathTenant.id # NULL
              /\ ~MayManage(Caller(last'.h), PathTenant)) =>
               last'.resp = PermissionDenied /\ products' = products]_vars

\* The tenant admin of another tenant has been refused the update of a product
\* that exists in the tenant of the path
C6_Witness ==
    LET T == get_tenant_by_name(tenants, last.tenant_name)
        c == get_user_by_username(users,
                 verify_jwt_token(parse_authorization_header(last.h)).username)
    IN /\ last.op = "update"
       /\ last.resp = PermissionDenied
       /\ c.role = "tenant_admin" /\ c.tenant_id # NULL /\ c.tenant_id # T.id
       /\ \E p \in products : p.id = last.product_id /\ p.tenant_id = T.id

\* C8 (as stated): a request without a bearer token is answered Unauthenticated
\* (401) whatever it names, and a request with a valid token of a principal
\* that lacks the role is answered 403, never 401.
C8_AuthenticationFirst ==
    [][last'.op \in ProductOps =>
         /\ parse_authorization_header(last'.h) = "" => last'.resp = Unauthenticated
         /\ Authenticated(last'.h) => last'.resp.status # 401]_vars

\* The product the request would add
Wanted == ParsedProductCreate(last'.data)

\* Tenant T has a product whose name equals `name` ignoring case
HasProductNamed(ps, T, name) ==
    \E p \in ps : p.tenant_id = T.id /\ Lower(p.name) = Lower(name)

\* C10: a createProduct that the schema and the authorization let through fails
\* with AlreadyExists (400) and adds nothing when the tenant has a product of
\* that name ignoring case; otherwise it succeeds and adds exactly that product
\* to the tenant, whatever the other tenants sell.
C10_DuplicateProductName ==
    [][(/\ last'.op = "create"
        /\ Authenticated(last'.h) /\ PathTenant.id # NULL
        /\ MayManage(Caller(last'.h), PathTenant)
        /\ ValidProductCreate(last'.data)) =>
         IF HasProductNamed(products, PathTenant, Wanted.name)
         THEN last'.resp = AlreadyExists /\ products' = products
         ELSE /\ last'.resp = Ok
              /\ \E p \in products' \ products :
                    /\ products' = products \cup {p}
                    /\ p.tenant_id = PathTenant.id /\ p.name = Wanted.name
                    /\ p.price = Wanted.price /\ p.qty = Wanted.qty
                    /\ \A q \in products : q.id # p.id]_vars

\* A product has just been refused because its tenant sells one whose name
\* differs in case only, while another tenant sells that name too
C10_Witness ==
    LET T == get_tenant_by_name(tenants, last.tenant_name)
        name == Strip(last.data.name)
    IN /\ last.op = "create"
       /\ last.resp = AlreadyExists
       /\ \E p \in products : p.tenant_id = T.id /\ p.name # name
                                /\ Lower(p.name) = Lower(name)
       /\ \E p, q \in products : p.tenant_id # q.tenant_id /\ Lower(p.name) = Lower(q.name)

AdminOps ==
    {"listTenants", "createTenant", "deleteTenant", "listUsers", "createUser",
     "updateUser", "assignUser", "deleteUser"}

\* The users other than the one named `username`
Others(us, username) == {u \in us : u.username # username}

\* C7: creating, deleting and listing tenants, and listing, creating, updating,
\* assigning and deleting tenant users succeed only for a principal resolved to
\* platform_admin; any other authenticated principal is answered
\* PermissionDenied (403), and neither a tenant nor another user changes.
C7_PlatformAdminOnly ==
    [][last'.op \in AdminOps =>
         /\ last'.resp = Ok =>
               Authenticated(last'.h) /\ Caller(last'.h).role = "platform_admin"
         /\ (Authenticated(last'.h) /\ Caller(last'.h).role # "platform_admin") =>
               /\ last'.resp = PermissionDenied
               /\ tenants' = tenants
               /\ Others(users', Caller(last'.h).username)
                    = Others(users, Caller(last'.h).username)]_vars

\* A caller who is not a platform admin has been refused the update of another
\* user, who belongs to the tenant of the path
C7_Witness ==
    LET T == get_tenant_by_name(tenants, last.tenant_name)
        c == get_user_by_username(users,
                 verify_jwt_token(parse_authorization_header(last.h)).username)
    IN /\ last.op = "updateUser"
       /\ last.resp = PermissionDenied
       /\ c.id # NULL /\ c.role # "platform_admin"
       /\ \E u \in users : u.id = last.user_id /\ u.id # c.id /\ u.tenant_id = T.id
                             /\ u.role # last.data.role

\* C9 (as stated): in every reachable state no two tenants have names that are
\* equal ignoring case, concurrent createTenant requests included.
C9_TenantNamesUnique ==
    \A t1, t2 \in tenants : Lower(t1.name) = Lower(t2.name) => t1 = t2

\* C11 (as stated): in every reachable state, after any sequence of
\* createProduct and updateProduct, no two products of a tenant have names that
\* are equal ignoring case.
C11_ProductNamesUnique ==
    \A p, q \in products :
        (p.tenant_id = q.tenant_id /\ Lower(p.name) = Lower(q.name)) => p = q

\* C12: when deleteTenant(T) commits, T is gone and the other tenants are as
\* they were; the products of T are gone and the other products are as they
\* were; every user of T is still there with the same id, username and role and
\* has no tenant, and the other users are as they were.
C12_TenantDeleted ==
    [][(last'.op = "deleteTenant" /\ last'.resp = Ok) =>
         LET T == get_tenant_by_name(tenants, last'.tenant_name) IN
         /\ T.id # NULL
         /\ tenants' = tenants \ {T}
         /\ products' = {p \in products : p.tenant_id # T.id}
         /\ users' = {IF u.tenant_id = T.id THEN [u EXCEPT !.tenant_id = NULL] ELSE u
                      : u \in users}
         /\ \A u \in users : \E v \in users' : v.id = u.id /\ v.username = u.username]_vars

\* Tenant N has just been deleted: its admin ann is still there without a
\* tenant, its product is gone, tenant A and its product are still there
C12_Witness ==
    /\ last.op = "deleteTenant" /\ last.resp = Ok /\ last.tenant_name = <<"n">>
    /\ \E u \in users : u.username = "ann" /\ u.id = 2 /\ u.tenant_id = NULL
    /\ \A t \in tenants : t.name # <<"N">>
    /\ \E t \in tenants : t.name = <<"A">> /\ \E p \in products : p.tenant_id = t.id
    /\ \A p \in products : p.tenant_id # 1

\* C13: the role a request resolves to is the value of the 'role' claim when the
\* token has one; otherwise platform_admin if the roles list contains it, else
\* tenant_admin if the roles list contains it, else user.
C13_RoleDerivation ==
    [][(last'.op = "listFavourites" /\ last'.resp = Ok) =>
         LET c == last'.claims
             roles == IF c.realm THEN c.roles ELSE {}
             role == IF c.has_role THEN c.role
                     ELSE IF "platform_admin" \in roles THEN "platform_admin"
                     ELSE IF "tenant_admin" \in roles THEN "tenant_admin"
                     ELSE "user"
         IN get_user_by_username(users', c.username).role = role]_vars

\* A token listing both admin roles and carrying the claim role = user has
\* resolved ann to user
C13_Witness ==
    /\ last.op = "listFavourites" /\ last.resp = Ok
    /\ last.claims.roles = {"platform_admin", "tenant_admin"} /\ last.claims.realm
    /\ last.claims.has_role /\ last.claims.role = "user"
    /\ get_user_by_username(users, last.claims.username).role = "user"

\* C14: resolving the identity of a user that is already stored never fails;
\* afterwards the stored role is the token's role, the stored tenant is the
\* token's tenant when the token names an existing tenant and is otherwise left
\* as it was, and no other user is touched.
C14_IdentityResolution ==
    [][(last'.op = "listFavourites" /\ last'.claims.valid) =>
         LET c == last'.claims
             u == get_user_by_username(users, c.username)
             t == IF c.tenant = <<>> THEN NoRow ELSE get_tenant_by_name(tenants, c.tenant)
         IN u.id # NULL =>
              /\ last'.resp = Ok
              /\ users' = (users \ {u}) \cup
                    {[u EXCEPT !.role = TokenRole(c),
                               !.tenant_id = IF t.id # NULL THEN t.id ELSE @]}]_vars

\* ann, stored as tenant admin of N, came with a user token naming a tenant that
\* does not exist: she is now a user and still of tenant N
C14_Witness ==
    /\ last.op = "listFavourites" /\ last.resp = Ok
    /\ last.claims.username = "ann" /\ last.claims.tenant = <<"Z">>
    /\ \E u \in users : u.username = "ann" /\ u.role = "user" /\ u.tenant_id = 1

\* C15 (as stated): in every reachable state every tenant_admin references an
\* existing tenant, and every user and platform_admin has no tenant.
C15_RoleTenantInvariant ==
    \A u \in users :
        /\ u.role = "tenant_admin" => \E t \in tenants : t.id = u.tenant_id
        /\ u.role \in {"user", "platform_admin"} => u.tenant_id = NULL

\* The (user, product) pair a favourites request is about
FavPair == <<Caller(last'.h).id, last'.product_id>>

FavOps == {"favourite", "unfavourite"}

\* C16: a favourites request of an authenticated caller for an unknown product
\* answers NotFound; addFavourite for a pair that is present answers
\* AlreadyExists and otherwise adds exactly that pair; removeFavourite for a
\* pair that is absent answers NotFound and otherwise removes exactly that
\* pair (so a successful add followed by a successful remove gives back the
\* set there was); every failing request leaves the relation unchanged.
C16_Favourites ==
    [][(last'.op \in FavOps /\ Authenticated(last'.h)) =>
         LET known == get_product(products, last'.product_id).id # NULL
             add == last'.op = "favourite"
         IN /\ ~known => last'.resp = NotFound
            /\ (known /\ add /\ FavPair \in favs) => last'.resp = AlreadyExists
            /\ (known /\ add /\ FavPair \notin favs) =>
                   last'.resp = Ok /\ favs' = favs \cup {FavPair}
            /\ (known /\ ~add /\ FavPair \notin favs) => last'.resp = NotFound
            /\ (known /\ ~add /\ FavPair \in favs) =>
                   last'.resp = Ok /\ favs' = favs \ {FavPair}
            /\ last'.resp # Ok => favs' = favs]_vars

\* bob, who had X among his favourites, added Y and removed it again: the
\* second request succeeded and his favourites are X alone, as before
C16_Witness ==
    /\ last.op = "unfavourite" /\ last.resp = Ok /\ last.n = 2
    /\ last.h.token = "user-token" /\ last.product_id = 2
    /\ favs = {<<3, 1>>}

\* C17: an authenticated caller of any role and tenant can favourite any
\* existing product that is not yet among their favourites, and can order any
\* existing products that are in stock, whichever tenants they belong to: the
\* request succeeds and the order is the caller's with one line per product.
C17_NoTenantRestriction ==
    [][Authenticated(last'.h) =>
         /\ (/\ last'.op = "favourite"
             /\ get_product(products, last'.product_id).id # NULL
             /\ FavPair \notin favs)
            => last'.resp = Ok /\ FavPair \in favs'
         /\ (last'.op = "order" /\ AllLinesValid(last'.input, products))
            => /\ last'.resp = Ok
               /\ \E o \in orders' \ orders :
                     /\ o.user_id = Caller(last'.h).id
                     /\ {it.product_id : it \in {x \in items' : x.order_id = o.id}}
                           = {last'.input[k].product_id : k \in DOMAIN last'.input}]_vars

\* ann, tenant admin of N, has Y of tenant A among her favourites and has just
\* ordered X of tenant N and Y of tenant A in one order
C17_Witness ==
    /\ last.op = "order" /\ last.resp = Ok /\ last.h.token = "nike-admin-token"
    /\ <<2, 2>> \in favs
    /\ \E o \in orders :
          /\ o.user_id = 2
          /\ {get_product(products, it.product_id).tenant_id :
                it \in {x \in items : x.order_id = o.id}} = {1, 2}

\* C18 (as stated): a request that ends in an error leaves no committed side
\* effect: every table, the users included, is as it was before the request.
C18_ErrorCommitsNothing ==
    [][(last'.n = last.n + 1 /\ last'.resp.status >= 400) => db' = db]_vars

\* C19 (as stated): when the role change of a tenant-user update or assign
\* cannot be mirrored because the provider call fails, the request still
\* succeeds and the local role and tenant are written.
C19_RoleMirrorFailureLogged ==
    [][(last'.op \in {"updateUser", "assignUser"} /\ last'.kc = "error") =>
         /\ last'.resp = Ok
         /\ \E u \in users' : u.role = last'.data.role /\ u \notin users]_vars

\* C20: in signup and in the creation of a tenant user, when the provider's
\* create fails the request answers 5xx and no User row is created; when the
\* provider creates the user or reports that it already exists, the request
\* succeeds and the local row is created.
C20_CreateAbortsOnProviderFailure ==
    [][(last'.op \in {"signup", "createUser"} /\ last'.kc # "none") =>
         /\ last'.kc = "error" => last'.resp.status >= 500 /\ users' = users
         /\ last'.kc \in {"created", "exists"} =>
               /\ last'.resp = Ok
               /\ \E u \in users' \ users :
                     /\ u.username = StripUsername(last'.data.username)
                     /\ users' = users \cup {u}]_vars

\* The provider failed during the signup of dan: the answer is 500 and there is
\* no user dan
C20_Witness ==
    /\ last.op = "signup" /\ last.kc = "error" /\ last.resp = ServerError
    /\ last.data.username = "dan"
    /\ \A u \in users : u.username # "dan"

\* C21: signup takes no credentials; a well-formed signup for a username that
\* is already stored answers AlreadyExists without calling the provider and
\* without touching any user; a signup that succeeds adds exactly one user,
\* with the stripped username, role user and no tenant, whatever role the body
\* names; a signup that fails adds and changes no user.
C21_Signup ==
    [][last'.op = "signup" =>
         LET name == StripUsername(last'.data.username) IN
         /\ (ValidUserSignup(last'.data) /\ get_user_by_username(users, name).id # NULL)
            => last'.resp = AlreadyExists /\ last'.kc = "none" /\ users' = users
         /\ last'.resp = Ok =>
               \E u \in users' \ users :
                  /\ users' = users \cup {u}
                  /\ u.username = name /\ u.role = "user" /\ u.tenant_id = NULL
         /\ last'.resp # Ok => users' = users]_vars

\* A signup whose body names the role platform_admin has created dan as a user
\* without a tenant
C21_Witness ==
    /\ last.op = "signup" /\ last.resp = Ok
    /\ last.data.username = "dan" /\ last.data.role = "platform_admin"
    /\ \E u \in users : u.username = "dan" /\ u.role = "user" /\ u.tenant_id = NULL

ListOps == {"listFavourites", "listOrders"}

\* The user a listing request resolved to
Lister ==
    IF last'.op = "listFavourites" THEN get_user_by_username(users', last'.claims.username)
    ELSE Caller(last'.h)

\* The full result of a listing request: the caller's favourite products, the
\* caller's orders
FullResult ==
    IF last'.op = "listFavourites"
    THEN Ascending({f[2] : f \in {x \in favs : x[1] = Lister.id}})
    ELSE Ascending({o.id : o \in {x \in orders : x.user_id = Lister.id}})

\* C22 (as stated): a listing request of an authenticated caller with skip < 0
\* or limit outside 1..100 is rejected; an accepted one returns the elements at
\* positions [skip, skip+limit) of the full result, never more than 100.
C22_Pagination ==
    [][(last'.op \in ListOps /\ last'.resp.status # 401) =>
         IF last'.skip < 0 \/ last'.limit < 1 \/ last'.limit > MAX_LIMIT
         THEN last'.resp.status >= 400
         ELSE /\ last'.resp = Ok
              /\ last'.listed = Window(FullResult, last'.skip, last'.limit)
              /\ Len(last'.listed) <= MAX_LIMIT]_vars

\* C23: a listing returns only what belongs to the caller: every order that
\* GET /orders/ returns is owned by the caller and every product that
\* GET /users/me/favourites returns is among the caller's favourites; with
\* skip 0 and limit 10 the listing is the whole of what the caller owns.
C23_ListingsPerUser ==
    [][(last'.op \in ListOps /\ last'.resp = Ok) =>
         /\ \A k \in DOMAIN last'.listed :
               IF last'.op = "listOrders"
               THEN \E o \in orders : o.id = last'.listed[k] /\ o.user_id = Lister.id
               ELSE <<Lister.id, last'.listed[k]>> \in favs
         /\ (last'.skip = DEFAULT_SKIP /\ last'.limit = DEFAULT_LIMIT)
            => last'.listed = FullResult]_vars

\* ann has placed an order after bob's and hers; bob then lists his orders and
\* gets his own order alone
C23_Witness ==
    /\ last.op = "listOrders" /\ last.resp = Ok /\ last.h.token = "user-token"
    /\ last.n = 2 /\ last.listed = <<1>>
    /\ \E o \in orders : o.id = 3 /\ o.user_id = 2

\* The request carried a token that the verifier rejected, or whose claims
\* hold no username
TokenRejected ==
    LET c == IF last'.op = "listFavourites" THEN last'.claims
             ELSE verify_jwt_token(parse_authorization_header(last'.h))
    IN /\ last'.op \in {"listFavourites", "assignUser"}
       /\ last'.op = "assignUser" => parse_authorization_header(last'.h) # ""
       /\ ~c.valid \/ c.username = ""

\* C24: when the verifier rejects the token or the verified claims carry no
\* username, the request answers InvalidToken (401), no table is written (no
\* User row created or modified) and the operation is not carried out.
C24_FailClosed ==
    [][TokenRejected =>
         /\ last'.resp = InvalidToken /\ last'.resp.status = 401
         /\ db' = db
         /\ last'.op = "listFavourites" => last'.listed = <<>>
         /\ last'.op = "assignUser" => last'.kc = "none"]_vars

\* A caller whose token carries platform_admin but no username asked to make
\* bob a platform admin: 401, bob is still a user
C24_Witness ==
    /\ last.op = "assignUser" /\ last.h.token = "nameless-token"
    /\ last.data.username = "bob" /\ last.data.role = "platform_admin"
    /\ last.resp = InvalidToken
    /\ \E u \in users : u.username = "bob" /\ u.role = "user"

\* C25 (as stated): every request that is waiting in a call of the key
\* endpoint or of the provider's admin API is eventually answered, even when
\* the external party never answers.
C25_ExternalCallsReturn ==
    \A r \in Slots : (reqs[r].pc \in ExternalCalls) ~> (reqs[r].pc = "done")

\* C26: the available_quantity of a product that exists before and after a
\* request differs only when the request is a committed createOrder, which
\* takes off the quantities ordered for the product, or a successful
\* updateProduct of that product by a platform admin or the admin of its
\* tenant, which stores the quantity of the body; no other request and no
\* failed request changes it.
C26_StockFrame ==
    [][\A p \in products, q \in products' :
          (q.id = p.id /\ q.qty # p.qty) =>
             \/ /\ last'.op = "order" /\ last'.resp = Ok
                /\ q.qty = p.qty - Demand(last'.input, p.id, Len(last'.input))
             \/ /\ last'.op = "update" /\ last'.resp = Ok
                /\ last'.product_id = p.id /\ q.qty = last'.data.qty
                /\ MayManage(Caller(last'.h), get_tenant_by_id(tenants, p.tenant_id))]_vars

\* An order took one X off the stock; the favourite that followed left the
\* stock of X where the order had put it
C26_Witness ==
    /\ last.n = 2 /\ last.op = "favourite" /\ last.resp = Ok
    /\ \E o \in orders : o.id = 3
    /\ \E p \in products : p.id = 1 /\ p.qty = MaxStock - 1

\* The products a request has removed
Removed == {p.id : p \in products} \ {p.id : p \in products'}

\* C27: when a product is deleted, directly or with its tenant, the product,
\* the order items that reference it and the favourite pairs that reference it
\* are gone; the items and favourites of the products that stay are as they
\* were, and every order is still there with its total_quantity and
\* total_amount.
C27_ProductDeleteCascade ==
    [][(last'.op \in {"delete", "deleteTenant"} /\ last'.resp = Ok) =>
         /\ last'.op = "delete" => Removed = {last'.product_id}
         /\ last'.op = "deleteTenant" =>
               Removed = {p.id : p \in {x \in products : x.tenant_id = PathTenant.id}}
         /\ products' = {p \in products : p.id \notin Removed}
         /\ items' = {it \in items : it.product_id \notin Removed}
         /\ favs' = {f \in favs : f[2] \notin Removed}
         /\ orders' = orders]_vars

\* X has been deleted: its two order items and bob's favourite of it are gone,
\* the item and the favourites of Y are there, and both orders keep their totals
C27_Witness ==
    /\ last.op = "delete" /\ last.resp = Ok /\ last.product_id = 1
    /\ {it.id : it \in items} = {2}
    /\ favs = {<<3, 2>>, <<2, 2>>}
    /\ [id |-> 1, user_id |-> 3, total_quantity |-> 2, total_amount |-> 4] \in orders
    /\ [id |-> 2, user_id |-> 2, total_quantity |-> 1, total_amount |-> 3] \in orders

\* C28: an identity resolution creates or changes no row but the one of the
\* token's username, and at most that one; resolving the same claims again in
\* the state it leaves writes nothing, and a request that repeats the claims
\* of the request before it leaves the users as they are.
C28_ResolutionIdempotent ==
    [][last'.op = "listFavourites" =>
         LET c == last'.claims IN
         /\ \A u \in users : u.username # c.username => u \in users'
         /\ \A v \in users' \ users : v.username = c.username
         /\ Cardinality(users' \ users) <= 1 /\ Cardinality(users \ users') <= 1
         /\ Cardinality(users') <= Cardinality(users) + 1
         /\ ResolveClaims(c, tenants', users').users = users'
         /\ (last.op = "listFavourites" /\ last.claims = c) => users' = users]_vars

\* eve, unknown before, has come twice with a tenant_admin token of tenant A:
\* there is one row for her, tenant admin of A, beside the three others
C28_Witness ==
    /\ last.n = 2 /\ last.op = "listFavourites" /\ last.resp = Ok
    /\ last.claims.username = "eve" /\ last.claims.tenant = <<"A">>
    /\ ~last.claims.has_role /\ last.claims.realm /\ last.claims.roles = {"tenant_admin"}
    /\ users = AdminUsers \cup {[id |-> 4, username |-> "eve", role |-> "tenant_admin",
                                 tenant_id |-> 2]}

\* C29: in every state, every product's tenant exists; every user's tenant,
\* when set, exists; every order's user exists; every order item's order and
\* product exist; every favourite pair's user and product exist.
C29_ReferentialIntegrity ==
    /\ \A p \in products : \E t \in tenants : t.id = p.tenant_id
    /\ \A u \in users : u.tenant_id # NULL => \E t \in tenants : t.id = u.tenant_id
    /\ \A o \in orders : \E u \in users : u.id = o.user_id
    /\ \A it \in items :
          /\ \E o \in orders : o.id = it.order_id
          /\ \E p \in products : p.id = it.product_id
    /\ \A f \in favs :
          /\ \E u \in users : u.id = f[1]
          /\ \E p \in products : p.id = f[2]

\* ann, who had an order and a favourite, has been deleted: her order, its item
\* and her favourite are gone with her, bob's are there
C29_Witness ==
    /\ last.op = "deleteUser" /\ last.resp = Ok /\ last.user_id = 2
    /\ \A u \in users : u.id # 2
    /\ {o.id : o \in orders} = {1}
    /\ {it.id : it \in items} = {1, 2}
    /\ favs = {<<3, 1>>, <<3, 2>>}

\* The stock holds what the lines of the order ask of each product together
StockCovers(input, ps) ==
    \A p \in ps : Demand(input, p.id, Len(input)) <= p.qty

\* C30: a createOrder request with well-formed lines for existing products, the
\* same product in several lines included, succeeds if and only if for every
\* product the quantities of its lines together are at most its
\* available_quantity before the request; it then takes exactly those
\* quantities off the stock, and otherwise fails with InsufficientQuantity and
\* leaves products, orders and order items as they were.
C30_RepeatedProductLines ==
    [][(/\ last'.op = "order" /\ Authenticated(last'.h)
        /\ last'.input # <<>> /\ SchemaValid(last'.input)
        /\ \A k \in DOMAIN last'.input :
              get_product(products, last'.input[k].product_id).id # NULL)
       => LET input == last'.input IN
          /\ last'.resp = Ok <=> StockCovers(input, products)
          /\ StockCovers(input, products) =>
                products' = {[p EXCEPT !.qty = @ - Demand(input, p.id, Len(input))]
                             : p \in products}
          /\ ~StockCovers(input, products) =>
                /\ last'.resp.kind = "InsufficientQuantity" /\ last'.resp.status = 400
                /\ products' = products /\ orders' = orders /\ items' = items]_vars

\* Two lines of one X each were served from a stock of two: the order is
\* committed with both lines and no X is left
C30_Witness ==
    /\ last.op = "order" /\ last.resp = Ok
    /\ Len(last.input) = 2
    /\ \A k \in DOMAIN last.input :
          last.input[k].product_id = 1 /\ last.input[k].quantity = 1
    /\ \E p \in products : p.id = 1 /\ p.qty = 0
    /\ Cardinality({it \in items : it.product_id = 1}) = 2

====
